---- MODULE Spec2Model ----
(***************************************************************************)
(* MCP-Task-Messager: the task record (models.py), the domain catalog      *)
(* (core.py), the title normalizer (formatter.py) and the tool handler     *)
(* send_google_chat_message with its webhook sender (server.py).           *)
(*                                                                         *)
(* Text.  A Python str is modelled as a sequence of atoms.  An atom is a   *)
(* TLA+ string standing for one character (user-controlled text, the       *)
(* title tables) or for one whitespace-free run of characters of a literal *)
(* of the program (catalog text, messages, labels).  Whitespace and the    *)
(* characters html.escape rewrites are always atoms of their own.  A       *)
(* character outside ASCII is written by name: Idot is U+0130, inodot is   *)
(* U+0131, dotabove is U+0307, scedil/ccedil/gbreve/uuml/ouml are the      *)
(* Turkish letters, bullet is U+2022; inside a literal run the name is     *)
(* bracketed ("[Idot]nceleme").                                            *)
(*                                                                         *)
(* Optional values.  None is [some |-> FALSE], a present value v is        *)
(* [some |-> TRUE, val |-> v].                                             *)
(***************************************************************************)
EXTENDS Naturals, Sequences, FiniteSets

VARIABLES catalog, task, parked, env, pc, req, data, payload, resp, result, posts,
          resolved, formatted

vars == <<catalog, task, parked, env, pc, req, data, payload, resp, result, posts,
          resolved, formatted>>

None == [some |-> FALSE]
Some(v) == [some |-> TRUE, val |-> v]

(***************************************************************************)
(* Python str primitives.                                                  *)
(***************************************************************************)

\* The characters str.strip() removes (str.isspace), among the model's atoms.
Whitespace == {" ", "\n"}

RECURSIVE LStripSet(_, _)
LStripSet(s, cs) ==
  IF s # <<>> /\ Head(s) \in cs THEN LStripSet(Tail(s), cs) ELSE s

RECURSIVE RStripSet(_, _)
RStripSet(s, cs) ==
  IF s # <<>> /\ s[Len(s)] \in cs
  THEN RStripSet(SubSeq(s, 1, Len(s) - 1), cs)
  ELSE s

\* str.strip()
Strip(s) == RStripSet(LStripSet(s, Whitespace), Whitespace)

\* str.endswith(suffix)
EndsWith(s, suffix) ==
  /\ Len(suffix) <= Len(s)
  /\ SubSeq(s, Len(s) - Len(suffix) + 1, Len(s)) = suffix

\* `sub in s`
Contains(s, sub) ==
  \E i \in 0..(Len(s) - Len(sub)) : SubSeq(s, i + 1, i + Len(sub)) = sub

\* str.split(sep) for a one-character separator: always at least one piece.
RECURSIVE Split(_, _)
Split(s, sep) ==
  IF \E i \in 1..Len(s) : s[i] = sep
  THEN LET i == CHOOSE j \in 1..Len(s) :
                  s[j] = sep /\ \A k \in 1..(j - 1) : s[k] # sep
       IN <<SubSeq(s, 1, i - 1)>> \o Split(SubSeq(s, i + 1, Len(s)), sep)
  ELSE <<s>>

\* sep.join(parts)
RECURSIVE Join(_, _)
Join(parts, sep) ==
  IF parts = <<>> THEN <<>>
  ELSE IF Len(parts) = 1 THEN parts[1]
  ELSE parts[1] \o sep \o Join(Tail(parts), sep)

\* The cased letters of the model's alphabet: <<upper, lower>>.
CasePairs ==
  << <<"A", "a">>, <<"B", "b">>, <<"C", "c">>, <<"D", "d">>, <<"E", "e">>,
     <<"F", "f">>, <<"G", "g">>, <<"H", "h">>, <<"I", "i">>, <<"J", "j">>,
     <<"K", "k">>, <<"L", "l">>, <<"M", "m">>, <<"N", "n">>, <<"O", "o">>,
     <<"P", "p">>, <<"Q", "q">>, <<"R", "r">>, <<"S", "s">>, <<"T", "t">>,
     <<"U", "u">>, <<"V", "v">>, <<"W", "w">>, <<"X", "x">>, <<"Y", "y">>,
     <<"Z", "z">>, <<"Ccedil", "ccedil">>, <<"Gbreve", "gbreve">>, <<"Ouml", "ouml">>, <<"Scedil", "scedil">>,
     <<"Uuml", "uuml">> >>

UpperLetters == {CasePairs[i][1] : i \in 1..Len(CasePairs)} \cup {"Idot"}
LowerLetters == {CasePairs[i][2] : i \in 1..Len(CasePairs)} \cup {"inodot"}

\* str.isupper/islower of one character: it has case.
IsCased(c) == c \in UpperLetters \cup LowerLetters

\* The full lower-case mapping of one character (str.lower): U+0130 maps to
\* two characters, "i" followed by U+0307.
LowerChar(c) ==
  IF c = "Idot" THEN <<"i", "dotabove">>
  ELSE IF \E i \in 1..Len(CasePairs) : CasePairs[i][1] = c
  THEN <<CasePairs[CHOOSE i \in 1..Len(CasePairs) : CasePairs[i][1] = c][2]>>
  ELSE <<c>>

\* The title-case (upper-case) mapping of one character: "i" and U+0131 both
\* map to "I".
TitleChar(c) ==
  IF c = "inodot" THEN <<"I">>
  ELSE IF \E i \in 1..Len(CasePairs) : CasePairs[i][2] = c
  THEN <<CasePairs[CHOOSE i \in 1..Len(CasePairs) : CasePairs[i][2] = c][1]>>
  ELSE <<c>>

\* str.lower()
RECURSIVE Lower(_)
Lower(s) == IF s = <<>> THEN <<>> ELSE LowerChar(Head(s)) \o Lower(Tail(s))

\* str.title(): a cased character is title-cased when the character before it
\* is not cased, and lower-cased otherwise.
RECURSIVE TitleFrom(_, _)
TitleFrom(s, previous_is_cased) ==
  IF s = <<>> THEN <<>>
  ELSE (IF previous_is_cased THEN LowerChar(Head(s)) ELSE TitleChar(Head(s)))
       \o TitleFrom(Tail(s), IsCased(Head(s)))

Title(s) == TitleFrom(s, FALSE)

\* The simple lower-case of one character as re.IGNORECASE compares it; "i",
\* "I", U+0130 and U+0131 all compare equal (sre's tolower plus its i/dotless-i
\* equivalence).
FoldChar(c) ==
  IF c \in {"I", "Idot", "inodot"} THEN "i" ELSE LowerChar(c)[1]

\* re.search(pattern + "$", s, re.IGNORECASE) for a literal pattern.  "$" also
\* matches just before a newline that ends the string.
FoldEq(a, b) ==
  /\ Len(a) = Len(b)
  /\ \A i \in 1..Len(a) : FoldChar(a[i]) = FoldChar(b[i])

SearchAtEnd(pattern, s) ==
  \/ /\ Len(pattern) <= Len(s)
     /\ FoldEq(SubSeq(s, Len(s) - Len(pattern) + 1, Len(s)), pattern)
  \/ /\ Len(pattern) + 1 <= Len(s)
     /\ s[Len(s)] = "\n"
     /\ FoldEq(SubSeq(s, Len(s) - Len(pattern), Len(s) - 1), pattern)

\* html.escape(s) with quote=True.
EscapeChar(c) ==
  CASE c = "&"  -> "&amp;"
    [] c = "<"  -> "&lt;"
    [] c = ">"  -> "&gt;"
    [] c = "\"" -> "&quot;"
    [] c = "'"  -> "&#x27;"
    [] OTHER    -> c

HtmlEscape(s) == [i \in 1..Len(s) |-> EscapeChar(s[i])]

(***************************************************************************)
(* core.py: the domain catalog.  DOMAINS is the dict as core.py writes it;  *)
(* the variable catalog is the dict object the name DOMAINS is bound to    *)
(* while the process runs (a module-level dict, which Python lets any code *)
(* mutate).  The code reads the catalog through the variable.              *)
(***************************************************************************)

DOMAINS ==
  [ backend |-> [
      label |-> <<"Backend">>,
      analysis_steps |-> <<
        [title  |-> <<"API", " ", "/", " ", "Endpoint", " ", "[Idot]nceleme">>,
         detail |-> <<"[Idot]lgili", " ", "endpoint", "'", "in", " ", "request/response", " ", "loglar[inodot]", " ", "ve", " ", "HTTP", " ", "durum", " ", "kodlar[inodot]", " ", "incelenir.">>],
        [title  |-> <<"Veritaban[inodot]", " ", "Sorgusu">>,
         detail |-> <<"Yava[scedil]", " ", "veya", " ", "hatal[inodot]", " ", "sorgular", " ", "EXPLAIN/ANALYZE", " ", "ile", " ", "analiz", " ", "edilir;", " ", "index", " ", "kullan[inodot]m[inodot]", " ", "kontrol", " ", "edilir.">>],
        [title  |-> <<"Kuyruk", " ", "&", " ", "Async", " ", "[Idot][scedil]lem">>,
         detail |-> <<"Message", " ", "queue", " ", "(SQS,", " ", "RabbitMQ", " ", "vb.)", " ", "backlog,", " ", "dead-letter", " ", "kay[inodot]tlar[inodot]", " ", "ve", " ", "consumer", " ", "hatalar[inodot]", " ", "g[ouml]zden", " ", "ge[ccedil]irilir.">>],
        [title  |-> <<"Servis", " ", "Ba[gbreve][inodot]ml[inodot]l[inodot]klar[inodot]">>,
         detail |-> <<"Downstream", " ", "servislerin", " ", "sa[gbreve]l[inodot]k", " ", "durumu", " ", "(health-check)", " ", "ve", " ", "timeout", " ", "de[gbreve]erleri", " ", "do[gbreve]rulan[inodot]r.">>],
        [title  |-> <<"Bulgu", " ", "Payla[scedil][inodot]m[inodot]">>,
         detail |-> <<"K[ouml]k", " ", "neden", " ", "ve", " ", "[ouml]nerilen", " ", "d[uuml]zeltme", " ", "teknik", " ", "dille", " ", "raporlan[inodot]r.">>]
      >>,
      acceptance_criteria |-> <<
        <<"Hatal[inodot]", " ", "endpoint", " ", "veya", " ", "servis", " ", "tespit", " ", "edilmi[scedil]", " ", "ve", " ", "loglar[inodot]", " ", "al[inodot]nm[inodot][scedil]t[inodot]r.">>,
        <<"Veritaban[inodot]", " ", "taraf[inodot]nda", " ", "anomali", " ", "olup", " ", "olmad[inodot][gbreve][inodot]", " ", "netle[scedil]tirilmi[scedil]tir.">>,
        <<"Sorunun", " ", "kayna[gbreve][inodot]", " ", "(kod", " ", "hatas[inodot],", " ", "config,", " ", "altyap[inodot])", " ", "belirlenmi[scedil]tir.">>,
        <<"D[uuml]zeltme", " ", "[ouml]nerisi", " ", "veya", " ", "ge[ccedil]ici", " ", "workaround", " ", "talep", " ", "sahibine", " ", "iletilmi[scedil]tir.">>
      >> ],
    frontend |-> [
      label |-> <<"Frontend">>,
      analysis_steps |-> <<
        [title  |-> <<"Taray[inodot]c[inodot]", " ", "&", " ", "Ortam", " ", "Tespiti">>,
         detail |-> <<"Sorunun", " ", "hangi", " ", "taray[inodot]c[inodot]/versiyon", " ", "ve", " ", "i[scedil]letim", " ", "sisteminde", " ", "olu[scedil]tu[gbreve]u", " ", "belirlenir.">>],
        [title  |-> <<"Console", " ", "&", " ", "Network", " ", "[Idot]nceleme">>,
         detail |-> <<"DevTools", " ", "console", " ", "hatalar[inodot]", " ", "ve", " ", "ba[scedil]ar[inodot]s[inodot]z", " ", "network", " ", "istekleri", " ", "(4xx/5xx)", " ", "analiz", " ", "edilir.">>],
        [title  |-> <<"State", " ", "&", " ", "Render", " ", "Kontrol[uuml]">>,
         detail |-> <<"Bile[scedil]en", " ", "state", "'", "i,", " ", "props", " ", "ak[inodot][scedil][inodot]", " ", "ve", " ", "gereksiz", " ", "re-render", "'", "lar", " ", "React/Vue", " ", "DevTools", " ", "ile", " ", "incelenir.">>],
        [title  |-> <<"Performans", " ", "Profili">>,
         detail |-> <<"Lighthouse", " ", "veya", " ", "DevTools", " ", "Performance", " ", "sekmesiyle", " ", "LCP,", " ", "CLS,", " ", "FID", " ", "metrikleri", " ", "[ouml]l[ccedil][uuml]l[uuml]r.">>],
        [title  |-> <<"Bulgu", " ", "Payla[scedil][inodot]m[inodot]">>,
         detail |-> <<"Reproducing", " ", "ad[inodot]mlar[inodot]", " ", "ve", " ", "ekran", " ", "g[ouml]r[uuml]nt[uuml]leriyle", " ", "birlikte", " ", "rapor", " ", "haz[inodot]rlan[inodot]r.">>]
      >>,
      acceptance_criteria |-> <<
        <<"Sorun", " ", "belirli", " ", "taray[inodot]c[inodot]/cihaz", " ", "kombinasyonunda", " ", "tekrarlanabilir", " ", "hale", " ", "getirilmi[scedil]tir.">>,
        <<"Console", " ", "hatas[inodot]", " ", "veya", " ", "network", " ", "iste[gbreve]i", " ", "k[ouml]k", " ", "nedeni", " ", "tespit", " ", "edilmi[scedil]tir.">>,
        <<"D[uuml]zeltme", " ", "PR", "'", "[inodot]", " ", "a[ccedil][inodot]lm[inodot][scedil]", " ", "ya", " ", "da", " ", "ge[ccedil]ici", " ", "CSS/JS", " ", "fix", " ", "uygulanm[inodot][scedil]t[inodot]r.">>,
        <<"Analiz", " ", "raporu", " ", "ve", " ", "ekran", " ", "g[ouml]r[uuml]nt[uuml]leri", " ", "talep", " ", "sahibine", " ", "iletilmi[scedil]tir.">>
      >> ],
    devops |-> [
      label |-> <<"DevOps", " ", "/", " ", "Altyap[inodot]">>,
      analysis_steps |-> <<
        [title  |-> <<"Pipeline", " ", "&", " ", "Build", " ", "[Idot]nceleme">>,
         detail |-> <<"CI/CD", " ", "pipeline", " ", "loglar[inodot]", " ", "(GitHub", " ", "Actions,", " ", "GitLab", " ", "CI", " ", "vb.)", " ", "ad[inodot]m", " ", "ad[inodot]m", " ", "incelenir;", " ", "hatal[inodot]", " ", "stage", " ", "belirlenir.">>],
        [title  |-> <<"Container", " ", "&", " ", "Orchestration">>,
         detail |-> <<"Docker", " ", "container", " ", "loglar[inodot],", " ", "exit", " ", "code", "'", "lar", " ", "ve", " ", "restart", " ", "politikas[inodot]", " ", "kontrol", " ", "edilir.">>],
        [title  |-> <<"Altyap[inodot]", " ", "Kaynaklar[inodot]">>,
         detail |-> <<"CPU,", " ", "bellek,", " ", "disk", " ", "ve", " ", "a[gbreve]", " ", "metrikleri", " ", "(CloudWatch,", " ", "Grafana", " ", "vb.)", " ", "anomali", " ", "a[ccedil][inodot]s[inodot]ndan", " ", "incelenir.">>],
        [title  |-> <<"G[uuml]venlik", " ", "&", " ", "Eri[scedil]im">>,
         detail |-> <<"IAM", " ", "izinleri,", " ", "Security", " ", "Group", " ", "kurallar[inodot]", " ", "ve", " ", "secret/env", " ", "de[gbreve]i[scedil]kenleri", " ", "do[gbreve]rulan[inodot]r.">>],
        [title  |-> <<"Bulgu", " ", "Payla[scedil][inodot]m[inodot]">>,
         detail |-> <<"RCA", " ", "(Root", " ", "Cause", " ", "Analysis)", " ", "ve", " ", "iyile[scedil]tirme", " ", "[ouml]nerisi", " ", "runbook", " ", "format[inodot]nda", " ", "payla[scedil][inodot]l[inodot]r.">>]
      >>,
      acceptance_criteria |-> <<
        <<"Pipeline", " ", "veya", " ", "deployment", " ", "hatas[inodot]", " ", "tam", " ", "log", " ", "[ccedil][inodot]kt[inodot]s[inodot]yla", " ", "belgelenmi[scedil]tir.">>,
        <<"Altyap[inodot]", " ", "kaynak", " ", "t[uuml]ketimi", " ", "anomalisi", " ", "tespit", " ", "edilmi[scedil]", " ", "veya", " ", "d[inodot][scedil]lanm[inodot][scedil]t[inodot]r.">>,
        <<"G[uuml]venlik", " ", "a[ccedil][inodot][gbreve][inodot]", " ", "veya", " ", "yanl[inodot][scedil]", " ", "config", " ", "varsa", " ", "d[uuml]zeltilmi[scedil]", " ", "ya", " ", "da", " ", "bilet", " ", "a[ccedil][inodot]lm[inodot][scedil]t[inodot]r.">>,
        <<"Servis", " ", "ba[scedil]ar[inodot]yla", " ", "yeniden", " ", "deploy", " ", "edilmi[scedil]", " ", "ve", " ", "sa[gbreve]l[inodot]k", " ", "kontrol[uuml]", " ", "ge[ccedil]mi[scedil]tir.">>
      >> ],
    mobile |-> [
      label |-> <<"Mobil">>,
      analysis_steps |-> <<
        [title  |-> <<"Crash", " ", "&", " ", "Hata", " ", "Raporu">>,
         detail |-> <<"Firebase", " ", "Crashlytics", " ", "/", " ", "Sentry", " ", "[uuml]zerinden", " ", "stack", " ", "trace", " ", "ve", " ", "etkilenen", " ", "cihaz/OS", " ", "versiyonlar[inodot]", " ", "incelenir.">>],
        [title  |-> <<"Build", " ", "&", " ", "S[uuml]r[uuml]m", " ", "Kontrol[uuml]">>,
         detail |-> <<"Uygulama", " ", "versiyonu,", " ", "build", " ", "numaras[inodot]", " ", "ve", " ", "ba[gbreve][inodot]ml[inodot]l[inodot]k", " ", "versiyonlar[inodot]", " ", "do[gbreve]rulan[inodot]r.">>],
        [title  |-> <<"API", " ", "&", " ", "Ba[gbreve]lant[inodot]", " ", "Testi">>,
         detail |-> <<"Mobil", " ", "taraftan", " ", "gelen", " ", "API", " ", "isteklerinin", " ", "ba[scedil]ar[inodot]", " ", "oran[inodot]", " ", "ve", " ", "timeout", " ", "de[gbreve]erleri", " ", "kontrol", " ", "edilir.">>],
        [title  |-> <<"Store", " ", "Kural", " ", "Uyumu">>,
         detail |-> <<"App", " ", "Store", " ", "/", " ", "Google", " ", "Play", " ", "politika", " ", "de[gbreve]i[scedil]iklikleri", " ", "ve", " ", "inceleme", " ", "geri", " ", "bildirimleri", " ", "g[ouml]zden", " ", "ge[ccedil]irilir.">>],
        [title  |-> <<"Bulgu", " ", "Payla[scedil][inodot]m[inodot]">>,
         detail |-> <<"Etkilenen", " ", "cihaz/OS", " ", "matrisi", " ", "ve", " ", "d[uuml]zeltme", " ", "plan[inodot]", " ", "talep", " ", "sahibine", " ", "iletilir.">>]
      >>,
      acceptance_criteria |-> <<
        <<"Crash", " ", "stack", " ", "trace", "'", "i", " ", "al[inodot]nm[inodot][scedil]", " ", "ve", " ", "k[ouml]k", " ", "neden", " ", "belirlenmi[scedil]tir.">>,
        <<"Sorunun", " ", "belirli", " ", "OS", " ", "versiyonu", " ", "veya", " ", "cihazla", " ", "s[inodot]n[inodot]rl[inodot]", " ", "olup", " ", "olmad[inodot][gbreve][inodot]", " ", "netle[scedil]tirilmi[scedil]tir.">>,
        <<"D[uuml]zeltme", " ", "i[ccedil]eren", " ", "yeni", " ", "build", " ", "haz[inodot]rlanm[inodot][scedil]", " ", "veya", " ", "hotfix", " ", "plan[inodot]", " ", "olu[scedil]turulmu[scedil]tur.">>,
        <<"Analiz", " ", "sonucu", " ", "talep", " ", "sahibine", " ", "ve", " ", "varsa", " ", "store", " ", "ekibine", " ", "iletilmi[scedil]tir.">>
      >> ],
    data |-> [
      label |-> <<"Veri", " ", "/", " ", "Analytics">>,
      analysis_steps |-> <<
        [title  |-> <<"Pipeline", " ", "Sa[gbreve]l[inodot][gbreve][inodot]">>,
         detail |-> <<"ETL/ELT", " ", "pipeline", "'", "[inodot]n[inodot]n", " ", "durum", " ", "loglar[inodot]", " ", "(Airflow,", " ", "dbt", " ", "vb.)", " ", "incelenir;", " ", "ba[scedil]ar[inodot]s[inodot]z", " ", "tasklar", " ", "ve", " ", "gecikmeler", " ", "tespit", " ", "edilir.">>],
        [title  |-> <<"Veri", " ", "Kalitesi", " ", "Kontrol[uuml]">>,
         detail |-> <<"Kaynak", " ", "ve", " ", "hedef", " ", "veri", " ", "setleri", " ", "aras[inodot]nda", " ", "null", " ", "oranlar[inodot],", " ", "veri", " ", "tipleri", " ", "ve", " ", "ayk[inodot]r[inodot]", " ", "de[gbreve]erler", " ", "(outlier)", " ", "analiz", " ", "edilir.">>],
        [title  |-> <<"Storage", " ", "&", " ", "Ba[gbreve]lant[inodot]">>,
         detail |-> <<"Veritaban[inodot]/Data", " ", "Warehouse", " ", "ba[gbreve]lant[inodot]lar[inodot],", " ", "sorgu", " ", "performans[inodot]", " ", "ve", " ", "depolama", " ", "kapasitesi", " ", "kontrol", " ", "edilir.">>],
        [title  |-> <<"Raporlama", " ", "&", " ", "Metrikleri">>,
         detail |-> <<"BI", " ", "ara[ccedil]lar[inodot]", " ", "(Tableau,", " ", "Power", " ", "BI", " ", "vb.)", " ", "raporlar[inodot]n[inodot]n", " ", "g[uuml]ncel", " ", "olup", " ", "olmad[inodot][gbreve][inodot]", " ", "ve", " ", "hesaplamalar[inodot]", " ", "do[gbreve]rulan[inodot]r.">>],
        [title  |-> <<"Bulgu", " ", "Payla[scedil][inodot]m[inodot]">>,
         detail |-> <<"Veri", " ", "anomalisi", " ", "ve", " ", "d[uuml]zeltme", " ", "plan[inodot]", " ", "veri", " ", "ekibine", " ", "ve", " ", "ilgili", " ", "payda[scedil]lara", " ", "iletilir.">>]
      >>,
      acceptance_criteria |-> <<
        <<"Pipeline", " ", "hatas[inodot]", " ", "tam", " ", "ayr[inodot]nt[inodot]l[inodot]", " ", "loglarla", " ", "belgelenmi[scedil]tir.">>,
        <<"Veri", " ", "kalitesi", " ", "sorusu", " ", "(eksik,", " ", "yanl[inodot][scedil],", " ", "ge[ccedil]", " ", "veri)", " ", "tespit", " ", "edilmi[scedil]", " ", "veya", " ", "d[inodot][scedil]lanm[inodot][scedil]t[inodot]r.">>,
        <<"Etkilenen", " ", "raporlar", " ", "ve", " ", "metrikler", " ", "belirlenmi[scedil]tir.">>,
        <<"D[uuml]zeltme", " ", "veya", " ", "ge[ccedil]ici", " ", "workaround", " ", "uygulanm[inodot][scedil]", " ", "sosyal", " ", "medya", " ", "kullan[inodot]c[inodot]lar[inodot]na", " ", "bildirilmi[scedil]tir.">>
      >> ],
    business |-> [
      label |-> <<"[Idot][scedil]letme", " ", "/", " ", "Proses">>,
      analysis_steps |-> <<
        [title  |-> <<"Gereksinim", " ", "Analizi">>,
         detail |-> <<"[Idot]stenilen", " ", "g[ouml]rev,", " ", "hedef", " ", "ve", " ", "ba[scedil]ar[inodot]", " ", "[ouml]l[ccedil][uuml]tleri", " ", "payda[scedil]larla", " ", "netle[scedil]tirilir.">>],
        [title  |-> <<"Mevcut", " ", "Durum", " ", "De[gbreve]erlendirmesi">>,
         detail |-> <<"Mevcut", " ", "belgeler,", " ", "s[uuml]re[ccedil]ler", " ", "ve", " ", "altyap[inodot]", " ", "incelenir;", " ", "bo[scedil]luklar", " ", "ve", " ", "iyile[scedil]tirme", " ", "f[inodot]rsatlar[inodot]", " ", "tespit", " ", "edilir.">>],
        [title  |-> <<"[Ccedil][ouml]z[uuml]m", " ", "Tasar[inodot]m[inodot]">>,
         detail |-> <<"[Ouml]nerilen", " ", "yeni", " ", "belgeler,", " ", "i[scedil]", " ", "ak[inodot][scedil]lar[inodot]", " ", "veya", " ", "ara[ccedil]lar", " ", "tasarlan[inodot]r;", " ", "maliyet-fayda", " ", "analizi", " ", "yap[inodot]l[inodot]r.">>],
        [title  |-> <<"Uygulama", " ", "Plan[inodot]">>,
         detail |-> <<"Ad[inodot]m", " ", "ad[inodot]m", " ", "uygulama", " ", "takvimi,", " ", "sorumlu", " ", "taraflar", " ", "ve", " ", "kontrol", " ", "noktalar[inodot]", " ", "tan[inodot]mlan[inodot]r.">>],
        [title  |-> <<"Bulgu", " ", "Payla[scedil][inodot]m[inodot]">>,
         detail |-> <<"[Ouml]zetlenmi[scedil]", " ", "rapor", " ", "ve", " ", "uygulanabilir", " ", "[ouml]neriler", " ", "y[ouml]neticilere", " ", "ve", " ", "ilgili", " ", "ekiplere", " ", "sunulur.">>]
      >>,
      acceptance_criteria |-> <<
        <<"G[ouml]rev", " ", "gereksinimleri", " ", "ve", " ", "ba[scedil]ar[inodot]", " ", "kriterleri", " ", "yaz[inodot]l[inodot]", " ", "olarak", " ", "onaylanm[inodot][scedil]t[inodot]r.">>,
        <<"Mevcut", " ", "durum", " ", "analizi", " ", "tamamlanm[inodot][scedil]", " ", "ve", " ", "iyile[scedil]tirme", " ", "alanlar[inodot]", " ", "belirlenmi[scedil]tir.">>,
        <<"[Ccedil][ouml]z[uuml]m", " ", "[ouml]nerisi", " ", "ve", " ", "uygulama", " ", "plan[inodot]", " ", "haz[inodot]rlanm[inodot][scedil]t[inodot]r.">>,
        <<"Plan", " ", "payda[scedil]larca", " ", "g[ouml]zden", " ", "ge[ccedil]irilmi[scedil]", " ", "ve", " ", "kabul", " ", "edilmi[scedil]tir.">>
      >> ],
    general |-> [
      label |-> <<"Genel">>,
      analysis_steps |-> <<
        [title  |-> <<"Sorgulama">>,
         detail |-> <<"[Idot]letilen", " ", "bilgiler", " ", "kullan[inodot]larak", " ", "mevcut", " ", "durum", " ", "ve", " ", "ba[gbreve]lam", " ", "netle[scedil]tirilir.">>],
        [title  |-> <<"Log", " ", "Analizi">>,
         detail |-> <<"[Idot]lgili", " ", "sistem", " ", "loglar[inodot]ndan", " ", "hata", " ", "ve", " ", "anomaliler", " ", "incelenir.">>],
        [title  |-> <<"Ba[gbreve][inodot]ml[inodot]l[inodot]k", " ", "Kontrol[uuml]">>,
         detail |-> <<"[Uuml][ccedil][uuml]nc[uuml]", " ", "taraf", " ", "servisler", " ", "ve", " ", "entegrasyonlar", " ", "sa[gbreve]l[inodot]k", " ", "durumu", " ", "a[ccedil][inodot]s[inodot]ndan", " ", "de[gbreve]erlendirilir.">>],
        [title  |-> <<"Bulgu", " ", "Payla[scedil][inodot]m[inodot]">>,
         detail |-> <<"Tespit", " ", "edilen", " ", "anomali", " ", "veya", " ", "[ccedil][ouml]z[uuml]m", " ", "[ouml]nerisi", " ", "teknik", " ", "dille", " ", "raporlan[inodot]r.">>]
      >>,
      acceptance_criteria |-> <<
        <<"Sorunun", " ", "kapsam[inodot]", " ", "ve", " ", "etki", " ", "alan[inodot]", " ", "belirlenmi[scedil]tir.">>,
        <<"K[ouml]k", " ", "neden", " ", "(kullan[inodot]c[inodot]", " ", "hatas[inodot]", " ", "m[inodot],", " ", "yaz[inodot]l[inodot]m", " ", "bug", "'", "[inodot]", " ", "m[inodot],", " ", "altyap[inodot]", " ", "m[inodot])", " ", "netle[scedil]tirilmi[scedil]tir.">>,
        <<"Analiz", " ", "sonucu", " ", "ve", " ", "[ccedil][ouml]z[uuml]m", " ", "[ouml]nerisi", " ", "talep", " ", "sahibine", " ", "iletilmi[scedil]tir.">>
      >> ] ]

\* DOMAINS.keys(), in insertion order.
DOMAIN_KEYS ==
  <<"backend", "frontend", "devops", "mobile", "data", "business", "general">>

\* `key in DOMAINS`
InDomains(key) == key \in DOMAIN catalog

(***************************************************************************)
(* models.py: SolutionStep, SendMessageInput, SendMessageResult.           *)
(*                                                                         *)
(* A raw value is [kind |-> "none"], [kind |-> "str", val |-> text],       *)
(* [kind |-> "list", items |-> sequence of raw values] or                    *)
(* [kind |-> "other"] (neither None, nor a str, nor a list).  A            *)
(* constructor returns [ok |-> TRUE, val |-> instance] or                  *)
(* [ok |-> FALSE, errors |-> the ValidationError's lines].                 *)
(***************************************************************************)

RawNone == [kind |-> "none"]
RawStr(s) == [kind |-> "str", val |-> s]
RawList(l) == [kind |-> "list", items |-> l]
RawOther == [kind |-> "other"]

Ok(v) == [ok |-> TRUE, val |-> v]
Err(lines) == [ok |-> FALSE, errors |-> lines]

\* One line of a pydantic ValidationError raised from a ValueError in a
\* validator: the field, then "Value error, <message>".
ErrorLine(fieldname, message) ==
  <<fieldname, "\n", " ", " ", "Value", " ", "error,", " ">> \o message \o <<"\n">>

\* str(ValidationError) for a model and its error lines.
ValidationErrorText(model, lines) ==
  <<"validation", " ", "error", " ", "for", " ", model, "\n">>
    \o Join(lines, <<>>)

MustNotBeEmpty == <<"Must", " ", "not", " ", "be", " ", "empty">>

\* non_empty comparing the raw value with "" instead of trimming it first.
Mutant_non_empty(fieldname, v) ==
  IF v = <<>>
  THEN Err(<<ErrorLine(fieldname, MustNotBeEmpty)>>)
  ELSE Ok(Strip(v))

\* SolutionStep.non_empty and SendMessageInput.non_empty: the trimmed value, or
\* a ValueError.
non_empty(fieldname, v) ==
  IF Strip(v) = <<>>
  THEN Err(<<ErrorLine(fieldname, MustNotBeEmpty)>>)
  ELSE Ok(Strip(v))

\* SolutionStep(title=..., detail=...)
SolutionStep(step) ==
  LET t == non_empty("title", step.title)
      d == non_empty("detail", step.detail)
  IN IF t.ok /\ d.ok
     THEN Ok([title |-> t.val, detail |-> d.val])
     ELSE Err((IF t.ok THEN <<>> ELSE t.errors) \o (IF d.ok THEN <<>> ELSE d.errors))

\* SendMessageInput.validate_domain
InvalidDomainMessage(v) ==
  <<"Invalid", " ", "domain", " ", "'", v, "'.", " ",
    "Must", " ", "be", " ", "one", " ", "of:", " ">>
    \o Join([i \in 1..Len(DOMAIN_KEYS) |-> <<DOMAIN_KEYS[i]>>], <<",", " ">>)

\* validate_domain accepting any key (leaving it to resolved_domain's fallback).
Mutant_validate_domain(v) == Ok(v)

validate_domain(v) ==
  IF ~InDomains(v)
  THEN Err(<<ErrorLine("domain", InvalidDomainMessage(v))>>)
  ELSE Ok(v)

\* SendMessageInput.normalize_task_owner (mode="before")
normalize_task_owner(v) ==
  IF v.kind = "none" THEN Ok(None)
  ELSE IF v.kind = "str"
  THEN LET first == Strip(Split(v.val, ",")[1])
       IN Ok(IF first # <<>> THEN Some(Title(first)) ELSE None)
  ELSE Err(<<ErrorLine("task_owner",
              <<"task_owner", " ", "must", " ", "be", " ", "a", " ", "string">>)>>)

\* [p.strip() for p in seq if p.strip()]
RECURSIVE StripNonEmpty(_)
StripNonEmpty(seq) ==
  IF seq = <<>> THEN <<>>
  ELSE (IF Strip(Head(seq)) # <<>> THEN <<Strip(Head(seq))>> ELSE <<>>)
       \o StripNonEmpty(Tail(seq))

\* [item for item in seq if isinstance(item, str)]
RECURSIVE StrItems(_)
StrItems(seq) ==
  IF seq = <<>> THEN <<>>
  ELSE (IF Head(seq).kind = "str" THEN <<Head(seq).val>> ELSE <<>>)
       \o StrItems(Tail(seq))

\* seq.remove(x): only the first occurrence goes.
RECURSIVE Mutant_Without(_, _)
Mutant_Without(seq, x) ==
  IF seq = <<>> THEN <<>>
  ELSE IF Head(seq) = x THEN Tail(seq)
  ELSE <<Head(seq)>> \o Mutant_Without(Tail(seq), x)

\* [p for p in seq if p != x]
RECURSIVE Without(_, _)
Without(seq, x) ==
  IF seq = <<>> THEN <<>>
  ELSE (IF Head(seq) # x THEN <<Head(seq)>> ELSE <<>>) \o Without(Tail(seq), x)

\* normalize_participants keeping the list items as they came, untrimmed.
Mutant_normalize_participants(v) ==
  IF v.kind = "none" THEN Ok(None)
  ELSE IF v.kind = "str"
  THEN LET stripped == StripNonEmpty(Split(v.val, ","))
           parts == [i \in 1..Len(stripped) |-> Title(stripped[i])]
       IN Ok(IF parts # <<>> THEN Some(parts) ELSE None)
  ELSE IF v.kind = "list"
  THEN Ok(IF StrItems(v.items) # <<>> THEN Some(StrItems(v.items)) ELSE None)
  ELSE Err(<<ErrorLine("participants", <<"participants", " ", "must", " ", "be", " ",
              "a", " ", "string", " ", "or", " ", "list", " ", "of", " ", "strings">>)>>)

\* SendMessageInput.normalize_participants (mode="before")
normalize_participants(v) ==
  IF v.kind = "none" THEN Ok(None)
  ELSE IF v.kind = "str"
  THEN LET stripped == StripNonEmpty(Split(v.val, ","))
           parts == [i \in 1..Len(stripped) |-> Title(stripped[i])]
       IN Ok(IF parts # <<>> THEN Some(parts) ELSE None)
  ELSE IF v.kind = "list"
  THEN LET cleaned == StripNonEmpty(StrItems(v.items))
       IN Ok(IF cleaned # <<>> THEN Some(cleaned) ELSE None)
  ELSE Err(<<ErrorLine("participants",
              <<"participants", " ", "must", " ", "be", " ", "a", " ", "string", " ",
                "or", " ", "list", " ", "of", " ", "strings">>)>>)

\* ensure_no_task_owner_in_participants without its filter.
Mutant_ensure_no_task_owner_in_participants(self) == self

\* SendMessageInput.ensure_no_task_owner_in_participants (mode="after")
ensure_no_task_owner_in_participants(self) ==
  IF self.task_owner.some /\ self.participants.some
  THEN LET kept == Without(self.participants.val, self.task_owner.val)
       IN [self EXCEPT !.participants = IF kept = <<>> THEN None ELSE Some(kept)]
  ELSE self

\* list[SolutionStep] | None: each element is validated as a SolutionStep.
RECURSIVE StepErrors(_)
StepErrors(steps) ==
  IF steps = <<>> THEN <<>>
  ELSE (IF SolutionStep(Head(steps)).ok THEN <<>> ELSE SolutionStep(Head(steps)).errors)
       \o StepErrors(Tail(steps))

validate_steps(v) ==
  IF ~v.some THEN Ok(None)
  ELSE IF StepErrors(v.val) # <<>> THEN Err(StepErrors(v.val))
  ELSE Ok(Some([i \in 1..Len(v.val) |-> SolutionStep(v.val[i]).val]))

\* The error lines of the failed validators, in field order.
RECURSIVE AllErrors(_)
AllErrors(rs) ==
  IF rs = <<>> THEN <<>>
  ELSE (IF Head(rs).ok THEN <<>> ELSE Head(rs).errors) \o AllErrors(Tail(rs))

\* SendMessageInput(**kw): the field validators, then the model validator.
SendMessageInput(kw) ==
  LET title == non_empty("title", kw.title)
      summary == non_empty("summary", kw.summary)
      problem == non_empty("problem", kw.problem)
      estimated_duration == non_empty("estimated_duration", kw.estimated_duration)
      domain == validate_domain(kw.domain)
      task_owner == normalize_task_owner(kw.task_owner)
      participants == normalize_participants(kw.participants)
      analysis_steps == validate_steps(kw.analysis_steps)
      fields == <<title, summary, problem, estimated_duration, domain,
                  task_owner, participants, analysis_steps>>
  IN IF AllErrors(fields) # <<>>
     THEN Err(AllErrors(fields))
     ELSE Ok(ensure_no_task_owner_in_participants(
            [title |-> title.val,
             summary |-> summary.val,
             problem |-> problem.val,
             estimated_duration |-> estimated_duration.val,
             domain |-> domain.val,
             task_owner |-> task_owner.val,
             participants |-> participants.val,
             analysis_steps |-> analysis_steps.val,
             acceptance_criteria |-> kw.acceptance_criteria]))

\* resolved_domain always taking the fallback.
Mutant_resolved_domain(self) == catalog["general"]

\* SendMessageInput.resolved_domain: DOMAINS.get(self.domain, DOMAINS["general"])
resolved_domain(self) ==
  IF InDomains(self.domain) THEN catalog[self.domain] ELSE catalog["general"]

\* SendMessageInput.resolved_steps
resolved_steps(self) ==
  IF self.analysis_steps.some /\ self.analysis_steps.val # <<>>
  THEN self.analysis_steps.val
  ELSE LET defaults == resolved_domain(self).analysis_steps
       IN [i \in 1..Len(defaults) |-> SolutionStep(defaults[i]).val]

\* resolved_criteria deciding on the steps' field: defaults whenever the
\* steps are defaulted.
Mutant_resolved_criteria(self) ==
  IF self.analysis_steps.some /\ self.analysis_steps.val # <<>>
  THEN (IF self.acceptance_criteria.some THEN self.acceptance_criteria.val ELSE <<>>)
  ELSE resolved_domain(self).acceptance_criteria

\* SendMessageInput.resolved_criteria
resolved_criteria(self) ==
  IF self.acceptance_criteria.some /\ self.acceptance_criteria.val # <<>>
  THEN self.acceptance_criteria.val
  ELSE resolved_domain(self).acceptance_criteria

\* SendMessageResult(success=..., message=..., http_status=...): the message is
\* trimmed, and an empty one is a ValidationError.
SendMessageResult(success, message, http_status) ==
  IF Strip(message) = <<>>
  THEN Err(<<ErrorLine("message",
              <<"Message", " ", "must", " ", "not", " ", "be", " ", "empty">>)>>)
  ELSE Ok([success |-> success, message |-> Strip(message), http_status |-> http_status])

(***************************************************************************)
(* formatter.py: the title normalizer.  Titles are texts of one atom per   *)
(* character.                                                              *)
(***************************************************************************)

DOMAIN_PREFIX ==
  [ backend |-> <<"B", "a", "c", "k", "e", "n", "d">>,
    frontend |-> <<"F", "r", "o", "n", "t", "e", "n", "d">>,
    devops |-> <<"D", "e", "v", "O", "p", "s">>,
    mobile |-> <<"M", "o", "b", "i", "l">>,
    data |-> <<"D", "a", "t", "a">>,
    business |-> <<"B", "u", "s", "i", "n", "e", "s", "s">>,
    general |-> <<>> ]

_VALID_SUFFIXES ==
  << <<"E", "d", "i", "l", "e", "c", "e", "k">>,
     <<"Y", "a", "p", "inodot", "l", "a", "c", "a", "k">>,
     <<"G", "e", "l", "i", "scedil", "t", "i", "r", "i", "l", "e", "c", "e", "k">>,
     <<"D", "uuml", "z", "e", "n", "l", "e", "n", "e", "c", "e", "k">>,
     <<"Idot", "n", "c", "e", "l", "e", "n", "e", "c", "e", "k">>,
     <<"A", "r", "a", "scedil", "t", "inodot", "r", "inodot", "l", "a", "c", "a", "k">>,
     <<"O", "l", "u", "scedil", "t", "u", "r", "u", "l", "a", "c", "a", "k">>,
     <<"K", "a", "l", "d", "inodot", "r", "inodot", "l", "a", "c", "a", "k">>,
     <<"G", "uuml", "n", "c", "e", "l", "l", "e", "n", "e", "c", "e", "k">>,
     <<"E", "n", "t", "e", "g", "r", "e", " ", "E", "d", "i", "l", "e", "c", "e", "k">>,
     <<"T", "e", "s", "t", " ", "E", "d", "i", "l", "e", "c", "e", "k">>,
     <<"A", "n", "a", "l", "i", "z", " ", "E", "d", "i", "l", "e", "c", "e", "k">> >>

\* The (pattern, replacement) table of _nominalize_to_future; every pattern is
\* a literal followed by "$".
replacements ==
  << <<<<"G", "e", "l", "i", "scedil", "t", "i", "r", "m", "e">>,
       <<"G", "e", "l", "i", "scedil", "t", "i", "r", "i", "l", "e", "c", "e", "k">>>>,
     <<<<"D", "uuml", "z", "e", "n", "l", "e", "m", "e">>,
       <<"D", "uuml", "z", "e", "n", "l", "e", "n", "e", "c", "e", "k">>>>,
     <<<<"Idot", "n", "c", "e", "l", "e", "m", "e">>,
       <<"Idot", "n", "c", "e", "l", "e", "n", "e", "c", "e", "k">>>>,
     <<<<"A", "r", "a", "scedil", "t", "inodot", "r", "m", "a">>,
       <<"A", "r", "a", "scedil", "t", "inodot", "r", "inodot", "l", "a", "c", "a", "k">>>>,
     <<<<"O", "l", "u", "scedil", "t", "u", "r", "m", "a">>,
       <<"O", "l", "u", "scedil", "t", "u", "r", "u", "l", "a", "c", "a", "k">>>>,
     <<<<"K", "a", "l", "d", "inodot", "r", "m", "a">>,
       <<"K", "a", "l", "d", "inodot", "r", "inodot", "l", "a", "c", "a", "k">>>>,
     <<<<"G", "uuml", "n", "c", "e", "l", "l", "e", "m", "e">>,
       <<"G", "uuml", "n", "c", "e", "l", "l", "e", "n", "e", "c", "e", "k">>>>,
     <<<<"T", "e", "s", "t", " ", "E", "t", "m", "e">>,
       <<"T", "e", "s", "t", " ", "E", "d", "i", "l", "e", "c", "e", "k">>>>,
     <<<<"E", "n", "t", "e", "g", "r", "a", "s", "y", "o", "n">>,
       <<"E", "n", "t", "e", "g", "r", "e", " ", "E", "d", "i", "l", "e", "c", "e", "k">>>>,
     <<<<"A", "n", "a", "l", "i", "z">>,
       <<"A", "n", "a", "l", "i", "z", " ", "E", "d", "i", "l", "e", "c", "e", "k">>>>,
     <<<<"D", "uuml", "z", "e", "l", "t", "m", "e">>,
       <<"D", "uuml", "z", "e", "l", "t", "i", "l", "e", "c", "e", "k">>>> >>

\* re.sub(pattern + "$", replacement, action, flags=re.IGNORECASE), given that
\* the pattern matches: the matched span is replaced where it stands.
SubAtEnd(pattern, replacement, action) ==
  IF /\ Len(pattern) <= Len(action)
     /\ FoldEq(SubSeq(action, Len(action) - Len(pattern) + 1, Len(action)), pattern)
  THEN SubSeq(action, 1, Len(action) - Len(pattern)) \o replacement
  ELSE SubSeq(action, 1, Len(action) - Len(pattern) - 1) \o replacement \o <<"\n">>

\* The rules from the i-th on, first match wins.
RECURSIVE NominalizeFrom(_, _)
NominalizeFrom(i, action) ==
  IF i > Len(replacements)
  THEN action \o <<" ", "Y", "a", "p", "inodot", "l", "a", "c", "a", "k">>
  ELSE IF SearchAtEnd(replacements[i][1], action)
  THEN SubAtEnd(replacements[i][1], replacements[i][2], action)
  ELSE NominalizeFrom(i + 1, action)

_nominalize_to_future(action) == NominalizeFrom(1, action)

\* [p for p in parts if p]
RECURSIVE NonEmpty(_)
NonEmpty(parts) ==
  IF parts = <<>> THEN <<>>
  ELSE (IF Head(parts) # <<>> THEN <<Head(parts)>> ELSE <<>>) \o NonEmpty(Tail(parts))

TrailingPunctuation == {".", "!", "?", ";", ":", " "}

format_title(raw_title, project, domain) ==
  LET stripped == RStripSet(Strip(raw_title), TrailingPunctuation)
      action_lower == Lower(stripped)
      already == \E i \in 1..Len(_VALID_SUFFIXES) :
                    EndsWith(action_lower, Lower(_VALID_SUFFIXES[i]))
      action == IF ~already THEN _nominalize_to_future(stripped) ELSE stripped
      domain_prefix == IF domain \in DOMAIN DOMAIN_PREFIX
                       THEN DOMAIN_PREFIX[domain] ELSE <<>>
      prefix == Join(NonEmpty(<<Strip(project), domain_prefix>>), <<" ">>)
  IN IF prefix # <<>> THEN prefix \o <<":", " ">> \o action ELSE action

(***************************************************************************)
(* server.py: the card builder, the webhook sender and the tool handler.   *)
(***************************************************************************)

\* _format_summary_block
_format_summary_block(summary, problem) ==
  <<"<b>", "[Ouml]zet:", "</b>", " ">> \o HtmlEscape(summary)
    \o <<"<br>", "<br>", "<b>", "Problem:", "</b>", " ">> \o HtmlEscape(problem)

\* _format_analysis_steps
_format_analysis_steps(steps) ==
  Join([i \in 1..Len(steps) |->
          <<"bullet", " ", "<b>">> \o HtmlEscape(steps[i].title)
            \o <<":", "</b>", " ">> \o HtmlEscape(steps[i].detail)],
       <<"<br>">>)

\* _format_acceptance_criteria
_format_acceptance_criteria(criteria) ==
  Join([i \in 1..Len(criteria) |-> <<"bullet", " ">> \o HtmlEscape(criteria[i])],
       <<"<br>">>)

KeyValue(topLabel, content) ==
  [keyValue |-> [topLabel |-> topLabel, content |-> content]]

TextParagraph(text) == [textParagraph |-> [text |-> text]]

\* build_cards_payload(data): {"cards": [card]}
build_cards_payload(d) ==
  LET domain_label == resolved_domain(d).label
      meta_widgets ==
        << KeyValue(<<"Alan">>, HtmlEscape(domain_label)),
           KeyValue(<<"Tahmini", " ", "S[uuml]re">>, HtmlEscape(d.estimated_duration)) >>
        \o (IF d.task_owner.some
            THEN <<KeyValue(<<"Sorumlu">>, HtmlEscape(d.task_owner.val))>>
            ELSE <<>>)
      sections ==
        << [header |-> None, widgets |-> meta_widgets],
           [header |-> Some(<<"G[ouml]rev", " ", "A[ccedil][inodot]klamas[inodot]">>),
            widgets |-> <<TextParagraph(_format_summary_block(d.summary, d.problem))>>],
           [header |-> Some(<<"Muhtemel", " ", "[Ccedil][ouml]z[uuml]m">>),
            widgets |-> <<TextParagraph(_format_analysis_steps(resolved_steps(d)))>>],
           [header |-> Some(<<"Kabul", " ", "Kriterleri">>),
            widgets |-> <<TextParagraph(_format_acceptance_criteria(resolved_criteria(d)))>>] >>
      card == [header |-> [title |-> d.title], sections |-> sections]
  IN [cards |-> <<card>>]

\* str(n) for a natural number.
Digits == <<"0", "1", "2", "3", "4", "5", "6", "7", "8", "9">>

RECURSIVE IntText(_)
IntText(n) ==
  IF n < 10 THEN <<Digits[n + 1]>>
  ELSE IntText(n \div 10) \o <<Digits[(n % 10) + 1]>>

(***************************************************************************)
(* formatter.py: the card builder that takes an optional TaskDescription.  *)
(* TaskDescription and SolutionStepSection are imported from models.py,    *)
(* which does not define them; they are modelled as the plain records      *)
(* formatter.py reads: summary, problem, solution_steps (sections of a     *)
(* title and items) and advantages.  "check" is U+2713, "&nbsp;" the       *)
(* entity of the literal.                                                  *)
(***************************************************************************)

SolutionStepSection(title, items) == [title |-> title, items |-> items]

TaskDescription(summary, problem, solution_steps, advantages) ==
  [summary |-> summary, problem |-> problem, solution_steps |-> solution_steps,
   advantages |-> advantages]

\* _h
_h(text) == HtmlEscape(text)

\* format_summary_block
format_summary_block(summary, problem) ==
  <<"<b>", "[Ouml]zet:", "</b>", " ">> \o _h(summary)
    \o <<"<br>", "<br>", "<b>", "Problem:", "</b>", " ">> \o _h(problem)

\* format_solution_steps_html
format_solution_steps_html(steps) ==
  Join([i \in 1..Len(steps) |->
          <<"bullet", " ", "<b>">> \o _h(steps[i].title)
            \o <<":", "</b>", " ">> \o _h(steps[i].detail)],
       <<"<br>">>)

\* The lines of one section: its numbered header, then one line per item.
SectionLines(i, section) ==
  << <<"<b>">> \o IntText(i) \o <<".", " ">> \o _h(section.title) \o <<"</b>">> >>
    \o [k \in 1..Len(section.items) |->
          <<"&nbsp;", "&nbsp;", "bullet", " ">> \o _h(section.items[k])]

\* The lines of the sections from the i-th on.
RECURSIVE RichLinesFrom(_, _)
RichLinesFrom(i, sections) ==
  IF i > Len(sections) THEN <<>>
  ELSE SectionLines(i, sections[i]) \o RichLinesFrom(i + 1, sections)

\* The rich renderer writing the section headers only, as plain bullet lines:
\* the sub-bullets are lost and the lines look like flat ones.
Mutant_format_rich_solution_steps_html(sections) ==
  Join([i \in 1..Len(sections) |->
          <<"bullet", " ", "<b>">> \o _h(sections[i].title) \o <<":", "</b>", " ">>],
       <<"<br>">>)

\* format_rich_solution_steps_html
format_rich_solution_steps_html(sections) ==
  Join(RichLinesFrom(1, sections), <<"<br>">>)

\* format_advantages_html
format_advantages_html(advantages) ==
  Join([i \in 1..Len(advantages) |-> <<"check", " ">> \o _h(advantages[i])],
       <<"<br>">>)

\* format_acceptance_criteria_html
format_acceptance_criteria_html(criteria) ==
  Join([i \in 1..Len(criteria) |-> <<"bullet", " ">> \o _h(criteria[i])],
       <<"<br>">>)

\* The builder adding the advantages section whenever a description is given,
\* were its advantages list empty.
Mutant_formatter_build_cards_payload(d, desc) ==
  LET sections ==
        << [header |-> None,
            widgets |-> <<KeyValue(<<"Alan">>, _h(resolved_domain(d).label))>>],
           [header |-> Some(<<"G[ouml]rev", " ", "A[ccedil][inodot]klamas[inodot]">>),
            widgets |-> <<TextParagraph(format_summary_block(d.summary, d.problem))>>],
           [header |-> Some(<<"Muhtemel", " ", "[Ccedil][ouml]z[uuml]m">>),
            widgets |-> <<TextParagraph(format_solution_steps_html(resolved_steps(d)))>>] >>
        \o (IF desc.some
            THEN <<[header |-> Some(<<"[Ccedil][ouml]z[uuml]m[uuml]n", " ", "Avantajlar[inodot]">>),
                    widgets |-> <<TextParagraph(format_advantages_html(desc.val.advantages))>>]>>
            ELSE <<>>)
        \o << [header |-> Some(<<"Kabul", " ", "Kriterleri">>),
               widgets |-> <<TextParagraph(
                              format_acceptance_criteria_html(resolved_criteria(d)))>>] >>
  IN [cards |-> <<[header |-> [title |-> _h(d.title)], sections |-> sections]>>]

\* formatter.build_cards_payload(data, desc); desc is None or Some(description).
formatter_build_cards_payload(d, desc) ==
  LET domain_label == resolved_domain(d).label
      meta_widgets ==
        << KeyValue(<<"Alan">>, _h(domain_label)),
           KeyValue(<<"Tahmini", " ", "S[uuml]re">>, _h(d.estimated_duration)) >>
        \o (IF d.task_owner.some /\ d.task_owner.val # <<>>
            THEN <<KeyValue(<<"Atanan">>, _h(d.task_owner.val))>>
            ELSE <<>>)
        \o (IF d.participants.some /\ d.participants.val # <<>>
            THEN <<KeyValue(<<"Kat[inodot]l[inodot]mc[inodot]lar">>,
                            _h(Join(d.participants.val, <<",", " ">>)))>>
            ELSE <<>>)
      summary_text ==
        IF desc.some
        THEN format_summary_block(desc.val.summary, desc.val.problem)
        ELSE format_summary_block(d.summary, d.problem)
      solution_text ==
        IF desc.some /\ desc.val.solution_steps # <<>>
        THEN format_rich_solution_steps_html(desc.val.solution_steps)
        ELSE format_solution_steps_html(resolved_steps(d))
      sections ==
        << [header |-> None, widgets |-> meta_widgets],
           [header |-> Some(<<"G[ouml]rev", " ", "A[ccedil][inodot]klamas[inodot]">>),
            widgets |-> <<TextParagraph(summary_text)>>],
           [header |-> Some(<<"Muhtemel", " ", "[Ccedil][ouml]z[uuml]m">>),
            widgets |-> <<TextParagraph(solution_text)>>] >>
        \o (IF desc.some /\ desc.val.advantages # <<>>
            THEN <<[header |-> Some(<<"[Ccedil][ouml]z[uuml]m[uuml]n", " ", "Avantajlar[inodot]">>),
                    widgets |-> <<TextParagraph(format_advantages_html(desc.val.advantages))>>]>>
            ELSE <<>>)
        \o << [header |-> Some(<<"Kabul", " ", "Kriterleri">>),
               widgets |-> <<TextParagraph(
                              format_acceptance_criteria_html(resolved_criteria(d)))>>] >>
      card == [header |-> [title |-> _h(d.title)], sections |-> sections]
  IN [cards |-> <<card>>]

(***************************************************************************)
(* server.py: the webhook sender and the tool handler.                     *)
(***************************************************************************)

\* The URL read without .strip().
Mutant_webhook_url(e) ==
  IF e.GOOGLE_CHAT_WEBHOOK_URL.some THEN e.GOOGLE_CHAT_WEBHOOK_URL.val ELSE <<>>

\* os.getenv("GOOGLE_CHAT_WEBHOOK_URL", "").strip()
webhook_url(e) == Strip(IF e.GOOGLE_CHAT_WEBHOOK_URL.some
                        THEN e.GOOGLE_CHAT_WEBHOOK_URL.val ELSE <<>>)

\* post_to_webhook, the branch taken without a request: the URL is not set.
NotSetResult ==
  SendMessageResult(FALSE, <<"GOOGLE_CHAT_WEBHOOK_URL", " ", "is", " ", "not", " ", "set">>, None)

\* raise_for_status raising for 4xx and 5xx only.
Mutant_is_success(status) == status < 400

\* Response.raise_for_status() returns (does not raise) on a 2xx status.
is_success(status) == 200 <= status /\ status <= 299

\* The sender reporting the status of a 2xx answer only: a rejection comes
\* back without http_status.
Mutant_ResponseResult(status, text) ==
  IF is_success(status)
  THEN SendMessageResult(TRUE, <<"Message", " ", "sent">>, Some(status))
  ELSE SendMessageResult(FALSE,
         <<"HTTP", " ">> \o IntText(status) \o <<":", " ">> \o text, None)

\* post_to_webhook after `resp = await httpx_client.post(...)` returned a
\* response: the try body and the HTTPStatusError handler.
ResponseResult(status, text) ==
  IF is_success(status)
  THEN SendMessageResult(TRUE, <<"Message", " ", "sent">>, Some(status))
  ELSE SendMessageResult(FALSE,
         <<"HTTP", " ">> \o IntText(status) \o <<":", " ">> \o text, Some(status))

\* post_to_webhook, the httpx.RequestError handler.
RequestErrorResult(exc) ==
  SendMessageResult(FALSE, <<"Request", " ", "error:", " ">> \o exc, None)

\* `x or y` on a raw first operand: whether x is truthy.
Truthy(v) ==
  \/ v.kind = "other"
  \/ v.kind = "str" /\ v.val # <<>>
  \/ v.kind = "list" /\ v.items # <<>>

\* os.getenv("TASK_OWNER") as a raw value.
env_task_owner(e) ==
  IF e.TASK_OWNER.some THEN RawStr(e.TASK_OWNER.val) ELSE RawNone

\* [SolutionStep(**step) for step in analysis_steps]: the first failing step
\* raises.
RECURSIVE FirstStepError(_)
FirstStepError(steps) ==
  IF steps = <<>> THEN <<>>
  ELSE IF ~SolutionStep(Head(steps)).ok THEN SolutionStep(Head(steps)).errors
  ELSE FirstStepError(Tail(steps))

\* The try block of send_google_chat_message: the record, or the text of the
\* exception it raised.
parse_input(args, e) ==
  LET effective_task_owner ==
        IF Truthy(args.task_owner) THEN args.task_owner ELSE env_task_owner(e)
  IN IF args.analysis_steps.some /\ FirstStepError(args.analysis_steps.val) # <<>>
     THEN Err(ValidationErrorText("SolutionStep", FirstStepError(args.analysis_steps.val)))
     ELSE LET steps ==
                IF args.analysis_steps.some
                THEN Some([i \in 1..Len(args.analysis_steps.val) |->
                             SolutionStep(args.analysis_steps.val[i]).val])
                ELSE None
              built == SendMessageInput(
                [title |-> args.title,
                 summary |-> args.summary,
                 problem |-> args.problem,
                 estimated_duration |-> args.estimated_duration,
                 domain |-> args.domain,
                 task_owner |-> effective_task_owner,
                 participants |-> RawNone,
                 analysis_steps |-> steps,
                 acceptance_criteria |-> args.acceptance_criteria])
          IN IF built.ok THEN built
             ELSE Err(ValidationErrorText("SendMessageInput", built.errors))

\* The except block: SendMessageResult(success=False, message=f"Invalid input: {e}")
InvalidInputResult(text) ==
  SendMessageResult(FALSE, <<"Invalid", " ", "input:", " ">> \o text, None)

(***************************************************************************)
(* The handler as a state machine.  One call of send_google_chat_message   *)
(* runs from "idle": Call is the synchronous part up to the await of       *)
(* httpx_client.post (or to the return, if there is none); the sink's      *)
(* answer resumes it; Return hands the outcome to the caller.              *)
(*   env      the process environment                                      *)
(*   pc       "idle", "posting", "done" (returned), "raised" (an exception *)
(*            left the handler)                                            *)
(*   req      the call's arguments                                         *)
(*   data     the SendMessageInput built, if any                           *)
(*   payload  what build_cards_payload returned, if it ran                 *)
(*   resp     what httpx_client.post gave: a response, or the exception it *)
(*            raised                                                       *)
(*   result   the dict returned                                            *)
(*   posts    calls of httpx_client.post made in this call                 *)
(* The event loop runs one task at a time: task is the id of the running   *)
(* task, whose frame is req, data, payload, resp, result, posts and pc;    *)
(* parked maps every other task to its frame.                              *)
(***************************************************************************)

\* Bounds of the inputs.
MaxSteps == 1
MaxParts == 2
MaxPunct == 1

SeqsUpTo(S, n) == UNION {[1..k -> S] : k \in 0..n}

T_EMPTY == <<>>
T_BLANK == <<" ", "\n">>
T_TEXT == <<" ", "a", "&", "b", " ">>

FieldTexts == {T_EMPTY, T_BLANK, T_TEXT}

\* "[Ouml]deme API [Idot]nceleme", one atom per character.
T_SCENARIO ==
  <<"Ouml", "d", "e", "m", "e", " ", "A", "P", "I", " ",
    "Idot", "n", "c", "e", "l", "e", "m", "e">>

StepInputs ==
  { [title |-> <<"t">>, detail |-> <<" ", "d", " ">>],
    [title |-> <<" ">>, detail |-> <<"d">>],
    [title |-> <<"<", "t", ">">>, detail |-> <<>>] }

StepLists == {None} \cup {Some(l) : l \in SeqsUpTo(StepInputs, MaxSteps)}

CriteriaLists == {None, Some(<<>>), Some(<< <<"c", "1">>, <<"c", "2">> >>)}

UnknownDomains == {"bogus", "Backend", ""}

DomainInputs == DOMAIN DOMAINS \cup UnknownDomains

OwnerArgs ==
  { RawNone, RawOther, RawStr(<<>>),
    RawStr(<<"a", "l", "i", ",", " ", "v", "e", "l", "i">>) }

\* The arguments of the calls explored: every combination of the four required
\* texts, and every combination of domain, owner, steps and criteria.
Requests ==
  { [title |-> t, summary |-> s, problem |-> p, estimated_duration |-> e,
     domain |-> d, task_owner |-> RawNone, analysis_steps |-> None,
     acceptance_criteria |-> None] :
       t \in FieldTexts, s \in FieldTexts, p \in FieldTexts, e \in FieldTexts,
       d \in {"general", "bogus"} }
  \cup
  { [title |-> T_TEXT, summary |-> T_TEXT, problem |-> T_TEXT,
     estimated_duration |-> <<"2", " ", "S", "a", "a", "t">>,
     domain |-> d, task_owner |-> o, analysis_steps |-> st,
     acceptance_criteria |-> c] :
       d \in DomainInputs, o \in OwnerArgs, st \in StepLists, c \in CriteriaLists }
  \cup
  { [title |-> T_SCENARIO, summary |-> <<"S">>, problem |-> <<"P">>,
     estimated_duration |-> <<"2", " ", "S", "a", "a", "t">>,
     domain |-> "backend", task_owner |-> RawNone, analysis_steps |-> None,
     acceptance_criteria |-> None] }

WebhookUrls ==
  {None, Some(<<>>), Some(<<" ", "\n">>), Some(<<" ", "https://chat.example/hook", "\n">>)}

Environments ==
  { [GOOGLE_CHAT_WEBHOOK_URL |-> u, TASK_OWNER |-> o] :
      u \in WebhookUrls, o \in {None, Some(<<"e", "n", "v">>)} }

Statuses == {200, 204, 301, 404, 500}

Bodies == { <<>>, <<"o", "o", "p", "s">>, <<"o", "o", "p", "s", "\n">>, <<" ">> }

ErrorTexts == { <<>>, <<"t", "i", "m", "e", "d", " ", "o", "u", "t">>, <<"r", "e", "s", "e", "t", " ">> }

\* `return result.model_dump()`, or the ValidationError of SendMessageResult.
Finish(r) ==
  IF r.ok
  THEN /\ result' = Some(r.val)
       /\ pc' = "done"
  ELSE /\ result' = None
       /\ pc' = "raised"

Init ==
  /\ catalog = DOMAINS
  /\ task = 1
  /\ parked = <<>>
  /\ env \in Environments
  /\ pc = "idle"
  /\ req = None
  /\ data = None
  /\ payload = None
  /\ resp = None
  /\ result = None
  /\ posts = 0
  /\ resolved = None
  /\ formatted = <<>>

\* send_google_chat_message(...) up to its first suspension or its return.
Call(args) ==
  /\ pc = "idle"
  /\ req' = Some(args)
  /\ resp' = None
  /\ LET parsed == parse_input(args, env)
     IN IF ~parsed.ok
        THEN /\ data' = None
             /\ payload' = None
             /\ posts' = 0
             /\ Finish(InvalidInputResult(parsed.errors))
        ELSE /\ data' = Some(parsed.val)
             /\ payload' = Some(build_cards_payload(parsed.val))
             /\ IF webhook_url(env) = <<>>
                THEN /\ posts' = 0
                     /\ Finish(NotSetResult)
                ELSE /\ posts' = 1
                     /\ pc' = "posting"
                     /\ result' = None
  /\ UNCHANGED <<catalog, task, parked, env, resolved, formatted>>

\* A sender that posts again after a non-2xx answer.
Mutant_SinkResponds(status, text) ==
  /\ pc = "posting"
  /\ resp' = Some([kind |-> "response", status_code |-> status, text |-> text])
  /\ IF is_success(status)
     THEN Finish(ResponseResult(status, text)) /\ posts' = posts
     ELSE pc' = "posting" /\ result' = None /\ posts' = posts + 1
  /\ UNCHANGED <<catalog, task, parked, env, req, data, payload, resolved, formatted>>

\* The sink answers with a status and a body.
SinkResponds(status, text) ==
  /\ pc = "posting"
  /\ resp' = Some([kind |-> "response", status_code |-> status, text |-> text])
  /\ Finish(ResponseResult(status, text))
  /\ UNCHANGED <<catalog, task, parked, env, req, data, payload, posts, resolved, formatted>>

\* httpx_client.post raises an httpx.RequestError (timeout, connection error).
RequestFails(exc) ==
  /\ pc = "posting"
  /\ resp' = Some([kind |-> "RequestError", text |-> exc])
  /\ Finish(RequestErrorResult(exc))
  /\ UNCHANGED <<catalog, task, parked, env, req, data, payload, posts, resolved, formatted>>

\* httpx_client.post raises an exception that is neither an HTTPStatusError nor
\* a RequestError (httpx.InvalidURL for a malformed URL, RuntimeError for a
\* closed client): no handler of post_to_webhook or of the tool catches it.
PostRaises ==
  /\ pc = "posting"
  /\ resp' = Some([kind |-> "Exception"])
  /\ pc' = "raised"
  /\ UNCHANGED <<catalog, task, parked, env, req, data, payload, result, posts, resolved, formatted>>

\* The call is over; the server waits for the next one.
Return ==
  /\ pc \in {"done", "raised"}
  /\ pc' = "idle"
  /\ req' = None
  /\ data' = None
  /\ payload' = None
  /\ resp' = None
  /\ result' = None
  /\ posts' = 0
  /\ UNCHANGED <<catalog, task, parked, env, resolved, formatted>>

Next ==
  \/ \E args \in Requests : Call(args)
  \/ \E status \in Statuses, text \in Bodies : SinkResponds(status, text)
  \/ \E exc \in ErrorTexts : RequestFails(exc)
  \/ PostRaises
  \/ Return

Spec == Init /\ [][Next]_vars

(***************************************************************************)
(* Concurrent submissions.  FastMCP runs each tool call as an asyncio task *)
(* on one event loop: a task runs until it awaits (the POST) or returns,   *)
(* then the loop runs any other task.  Switch parks the running task's     *)
(* frame and resumes another task's.                                       *)
(***************************************************************************)

\* Tasks the event loop holds at once.
MaxTasks == 2

\* The locals of the running call of send_google_chat_message.
Frame ==
  [pc |-> pc, req |-> req, data |-> data, payload |-> payload, resp |-> resp,
   result |-> result, posts |-> posts]

\* A task that has not been given a call.
IdleFrame ==
  [pc |-> "idle", req |-> None, data |-> None, payload |-> None, resp |-> None,
   result |-> None, posts |-> 0]

ConcurrentRequests ==
  { [title |-> T_TEXT, summary |-> T_TEXT, problem |-> T_TEXT,
     estimated_duration |-> <<"2", " ", "S", "a", "a", "t">>,
     domain |-> "backend", task_owner |-> RawNone, analysis_steps |-> st,
     acceptance_criteria |-> c] :
       st \in {None, Some(<<[title |-> <<"t">>, detail |-> <<" ", "d", " ">>]>>)},
       c \in {None, Some(<< <<"c", "1">>, <<"c", "2">> >>)} }
  \cup
  { [title |-> T_TEXT, summary |-> T_TEXT, problem |-> T_TEXT,
     estimated_duration |-> <<"2", " ", "S", "a", "a", "t">>,
     domain |-> "bogus", task_owner |-> RawNone, analysis_steps |-> None,
     acceptance_criteria |-> None] }

ConcurrentEnvironments ==
  { [GOOGLE_CHAT_WEBHOOK_URL |-> u, TASK_OWNER |-> Some(<<"e", "n", "v">>)] :
      u \in {None, Some(<<" ", "https://chat.example/hook", "\n">>)} }

ConcurrentInit ==
  /\ catalog = DOMAINS
  /\ task = 1
  /\ parked = [t \in 2..MaxTasks |-> IdleFrame]
  /\ env \in ConcurrentEnvironments
  /\ pc = "idle"
  /\ req = None
  /\ data = None
  /\ payload = None
  /\ resp = None
  /\ result = None
  /\ posts = 0
  /\ resolved = None
  /\ formatted = <<>>

\* A switch that leaves the payload where it is, as if it were kept in a
\* module-level name instead of a local.
Mutant_Switch(t) ==
  /\ t \in DOMAIN parked
  /\ task' = t
  /\ parked' = [u \in (DOMAIN parked \ {t}) \cup {task} |->
                  IF u = task THEN Frame ELSE parked[u]]
  /\ pc' = parked[t].pc
  /\ req' = parked[t].req
  /\ data' = parked[t].data
  /\ payload' = payload
  /\ resp' = parked[t].resp
  /\ result' = parked[t].result
  /\ posts' = parked[t].posts
  /\ UNCHANGED <<catalog, env, resolved, formatted>>

\* The event loop leaves the running task where it stands (not started,
\* awaiting the POST, or finished) and runs task t.
Switch(t) ==
  /\ t \in DOMAIN parked
  /\ task' = t
  /\ parked' = [u \in (DOMAIN parked \ {t}) \cup {task} |->
                  IF u = task THEN Frame ELSE parked[u]]
  /\ pc' = parked[t].pc
  /\ req' = parked[t].req
  /\ data' = parked[t].data
  /\ payload' = parked[t].payload
  /\ resp' = parked[t].resp
  /\ result' = parked[t].result
  /\ posts' = parked[t].posts
  /\ UNCHANGED <<catalog, env, resolved, formatted>>

ConcurrentNext ==
  \/ \E args \in ConcurrentRequests : Call(args)
  \/ \E status \in {200, 500} : SinkResponds(status, <<"o", "o", "p", "s">>)
  \/ RequestFails(<<"t", "i", "m", "e", "d", " ", "o", "u", "t">>)
  \/ PostRaises
  \/ Return
  \/ \E t \in DOMAIN parked : Switch(t)

SpecConcurrent == ConcurrentInit /\ [][ConcurrentNext]_vars

(***************************************************************************)
(* The task record on its own: SendMessageInput built from a raw keyword   *)
(* set, then the three resolved_* methods, twice.  pc is "raw",            *)
(* "constructed", "resolved", "resolved_again"; req holds kw, data the     *)
(* constructor's outcome, resolved the methods' results.                   *)
(***************************************************************************)

OwnerTexts ==
  { <<>>,
    <<" ">>,
    <<"a", "l", "i">>,
    <<"A", "l", "i">>,
    <<" ", "a", "l", "i", " ">>,
    <<"A", "L", "I">>,
    <<"a", "l", "i", ",", " ", "v", "e", "l", "i">>,
    <<"A", "l", "i", ",", " ", "V", "e", "l", "i", ",", " ", "C", "a", "n">>,
    <<",", " ", "v", "e", "l", "i">>,
    <<"a", "l", "i", ",", ",">>,
    <<" ", "V", "e", "l", "i", " ", ",", "a", "l", "i">>,
    <<"v", "e", "l", "i", " ", "c", "a", "n", ",", "a", "l", "i">> }

OwnerInputs == {RawNone, RawOther} \cup {RawStr(s) : s \in OwnerTexts}

ParticipantTexts ==
  { <<>>,
    <<" ", ",", " ">>,
    <<"a", "l", "i">>,
    <<"v", "e", "l", "i", ",", " ", "c", "a", "n">>,
    <<"A", "l", "i", ",", "v", "e", "l", "i">>,
    <<"a", "l", "i", ",", " ", "a", "l", "i">>,
    <<"V", "e", "l", "i", ",", ",", " ", "a", "l", "i", " ", ",">> }

ParticipantItems ==
  { RawStr(<<"A", "l", "i">>),
    RawStr(<<"a", "l", "i">>),
    RawStr(<<" ", "V", "e", "l", "i", " ">>),
    RawStr(<<>>),
    RawOther }

ParticipantInputs ==
  {RawNone, RawOther}
    \cup {RawStr(s) : s \in ParticipantTexts}
    \cup {RawList(l) : l \in SeqsUpTo(ParticipantItems, MaxParts)}

\* Two caller-supplied steps, not in alphabetical order, to be trimmed.
TwoSteps ==
  << [title |-> <<" ", "z", "&">>, detail |-> <<"d", "2", "\n">>],
     [title |-> <<"a">>, detail |-> <<" ", "d", "1">>] >>

\* The keyword sets explored: every owner with every participants value, and
\* every combination of domain, steps and criteria.
RecordInputs ==
  { [title |-> T_TEXT, summary |-> T_TEXT, problem |-> T_TEXT,
     estimated_duration |-> T_TEXT, domain |-> "general",
     task_owner |-> o, participants |-> ps, analysis_steps |-> None,
     acceptance_criteria |-> None] :
       o \in OwnerInputs, ps \in ParticipantInputs }
  \cup
  { [title |-> T_TEXT, summary |-> T_TEXT, problem |-> T_TEXT,
     estimated_duration |-> T_TEXT, domain |-> d,
     task_owner |-> RawNone, participants |-> RawNone, analysis_steps |-> st,
     acceptance_criteria |-> c] :
       d \in DomainInputs, st \in StepLists \cup {Some(TwoSteps)}, c \in CriteriaLists }

RecordInit ==
  /\ catalog = DOMAINS
  /\ task = 1
  /\ parked = <<>>
  /\ env = [GOOGLE_CHAT_WEBHOOK_URL |-> None, TASK_OWNER |-> None]
  /\ pc = "raw"
  /\ req \in {Some(kw) : kw \in RecordInputs}
  /\ data = None
  /\ payload = None
  /\ resp = None
  /\ result = None
  /\ posts = 0
  /\ resolved = None
  /\ formatted = <<>>

\* data = SendMessageInput(**kw)
Construct ==
  /\ pc = "raw"
  /\ data' = Some(SendMessageInput(req.val))
  /\ pc' = "constructed"
  /\ UNCHANGED <<catalog, task, parked, env, req, payload, resp, result, posts, resolved, formatted>>

\* data.resolved_domain(), data.resolved_steps(), data.resolved_criteria()
Resolve ==
  /\ pc = "constructed"
  /\ data.val.ok
  /\ resolved' = Some([domain |-> resolved_domain(data.val.val),
                       steps |-> resolved_steps(data.val.val),
                       criteria |-> resolved_criteria(data.val.val)])
  /\ pc' = "resolved"
  /\ UNCHANGED <<catalog, task, parked, env, req, data, payload, resp, result, posts, formatted>>

\* The three methods called a second time on the same record.
ResolveAgain ==
  /\ pc = "resolved"
  /\ resolved' = Some([domain |-> resolved.val.domain,
                       steps |-> resolved.val.steps,
                       criteria |-> resolved.val.criteria,
                       steps_again |-> resolved_steps(data.val.val),
                       criteria_again |-> resolved_criteria(data.val.val)])
  /\ pc' = "resolved_again"
  /\ UNCHANGED <<catalog, task, parked, env, req, data, payload, resp, result, posts, formatted>>

RecordNext == Construct \/ Resolve \/ ResolveAgain

SpecRecord == RecordInit /\ [][RecordNext]_vars

(***************************************************************************)
(* The title normalizer on its own: format_title applied to a raw title,   *)
(* then to its own output.  pc is "raw", "once", "twice"; req holds the    *)
(* arguments and formatted the outputs so far.                             *)
(***************************************************************************)

TitleStems ==
  { <<>>,
    <<"K", "o", "d", " ">>,
    <<"R", "a", "p", "o", "r", ":", " ">> }

\* The rules' verbal nouns, as written and in other cases; the canonical
\* suffixes; endings no rule knows.
TitleEndings ==
  { <<"G", "e", "l", "i", "scedil", "t", "i", "r", "m", "e">>,
    <<"D", "uuml", "z", "e", "n", "l", "e", "m", "e">>,
    <<"Idot", "n", "c", "e", "l", "e", "m", "e">>,
    <<"A", "r", "a", "scedil", "t", "inodot", "r", "m", "a">>,
    <<"O", "l", "u", "scedil", "t", "u", "r", "m", "a">>,
    <<"K", "a", "l", "d", "inodot", "r", "m", "a">>,
    <<"G", "uuml", "n", "c", "e", "l", "l", "e", "m", "e">>,
    <<"T", "e", "s", "t", " ", "E", "t", "m", "e">>,
    <<"E", "n", "t", "e", "g", "r", "a", "s", "y", "o", "n">>,
    <<"A", "n", "a", "l", "i", "z">>,
    <<"D", "uuml", "z", "e", "l", "t", "m", "e">>,
    <<"i", "n", "c", "e", "l", "e", "m", "e">>,
    <<"I", "N", "C", "E", "L", "E", "M", "E">>,
    <<"K", "A", "L", "D", "I", "R", "M", "A">>,
    <<"a", "n", "a", "l", "i", "z">>,
    <<"T", "E", "S", "T", " ", "E", "T", "M", "E">>,
    <<"g", "e", "l", "i", "scedil", "t", "i", "r", "m", "e">>,
    <<"E", "d", "i", "l", "e", "c", "e", "k">>,
    <<"Y", "a", "p", "inodot", "l", "a", "c", "a", "k">>,
    <<"G", "e", "l", "i", "scedil", "t", "i", "r", "i", "l", "e", "c", "e", "k">>,
    <<"D", "uuml", "z", "e", "n", "l", "e", "n", "e", "c", "e", "k">>,
    <<"Idot", "n", "c", "e", "l", "e", "n", "e", "c", "e", "k">>,
    <<"A", "r", "a", "scedil", "t", "inodot", "r", "inodot", "l", "a", "c", "a", "k">>,
    <<"O", "l", "u", "scedil", "t", "u", "r", "u", "l", "a", "c", "a", "k">>,
    <<"K", "a", "l", "d", "inodot", "r", "inodot", "l", "a", "c", "a", "k">>,
    <<"G", "uuml", "n", "c", "e", "l", "l", "e", "n", "e", "c", "e", "k">>,
    <<"E", "n", "t", "e", "g", "r", "e", " ", "E", "d", "i", "l", "e", "c", "e", "k">>,
    <<"T", "e", "s", "t", " ", "E", "d", "i", "l", "e", "c", "e", "k">>,
    <<"A", "n", "a", "l", "i", "z", " ", "E", "d", "i", "l", "e", "c", "e", "k">>,
    <<"i", "n", "c", "e", "l", "e", "n", "e", "c", "e", "k">>,
    <<"Y", "A", "P", "I", "L", "A", "C", "A", "K">>,
    <<"e", "d", "i", "l", "e", "c", "e", "k">>,
    <<"D", "uuml", "z", "e", "l", "t", "i", "l", "e", "c", "e", "k">>,
    <<"R", "a", "p", "o", "r">>,
    <<"A", "n", "a", "l", "i", "z", "i">>,
    <<>> }

\* What follows the ending: punctuation and whitespace up to MaxPunct
\* characters, and a line break followed by a full stop.
TitleTails == SeqsUpTo({".", " ", "\n"}, MaxPunct) \cup {<<"\n", ".">>}

TitleInputs ==
  { [raw_title |-> stem \o ending \o tail, project |-> p, domain |-> d] :
      stem \in TitleStems, ending \in TitleEndings, tail \in TitleTails,
      p \in {<<>>, <<" ", "C", "R", "M", " ">>},
      d \in {"general", "backend", "bogus"} }

TitleInit ==
  /\ catalog = DOMAINS
  /\ task = 1
  /\ parked = <<>>
  /\ env = [GOOGLE_CHAT_WEBHOOK_URL |-> None, TASK_OWNER |-> None]
  /\ pc = "raw"
  /\ req \in {Some(t) : t \in TitleInputs}
  /\ data = None
  /\ payload = None
  /\ resp = None
  /\ result = None
  /\ posts = 0
  /\ resolved = None
  /\ formatted = <<>>

\* format_title(raw_title, project, domain)
FormatTitle ==
  /\ pc = "raw"
  /\ formatted' = <<format_title(req.val.raw_title, req.val.project, req.val.domain)>>
  /\ pc' = "once"
  /\ UNCHANGED <<catalog, task, parked, env, req, data, payload, resp, result, posts, resolved>>

\* format_title(<the first output>, project, domain)
FormatTitleAgain ==
  /\ pc = "once"
  /\ formatted' = Append(formatted,
                    format_title(formatted[1], req.val.project, req.val.domain))
  /\ pc' = "twice"
  /\ UNCHANGED <<catalog, task, parked, env, req, data, payload, resp, result, posts, resolved>>

TitleNext == FormatTitle \/ FormatTitleAgain

SpecTitle == TitleInit /\ [][TitleNext]_vars

(***************************************************************************)
(* The card renderers on their own: a record is built from a raw keyword   *)
(* set and rendered, by server.build_cards_payload(data) or by             *)
(* formatter.build_cards_payload(data, desc).  pc is "raw", "constructed", *)
(* "rendered"; req holds the keyword set and the description at hand,      *)
(* data the constructor's outcome, payload the card, and resolved the      *)
(* renderer called and the description it was given.                       *)
(***************************************************************************)

RenderOwners == {RawNone, RawStr(<<"a", "l", "i">>)}

RenderParticipants ==
  { RawNone,
    RawStr(<<"a", "l", "i">>),
    RawStr(<<"v", "e", "l", "i", ",", " ", "c", "&", "n">>),
    RawList(<<RawStr(<<" ", "V", "e", "l", "i", " ">>)>>) }

Descriptions ==
  { TaskDescription(<<"s", "<">>, <<"p">>, sections, advantages) :
      sections \in { <<>>,
                     << SolutionStepSection(<<"h", "1">>, << <<"i", "1">>, <<"i", "&">> >>),
                        SolutionStepSection(<<"h", "2">>, <<>>) >> },
      advantages \in { <<>>, << <<"f", "a", "s", "t">>, <<"<", "b", ">">> >> } }

\* The runs explored: a keyword set and the description at hand, if any.
RenderInputs ==
  { [title |-> T_TEXT, summary |-> T_TEXT, problem |-> T_TEXT,
     estimated_duration |-> <<"2", " ", "S", "a", "a", "t">>, domain |-> d,
     task_owner |-> o, participants |-> ps, analysis_steps |-> st,
     acceptance_criteria |-> c, desc |-> desc] :
       d \in {"general", "backend"}, o \in RenderOwners, ps \in RenderParticipants,
       st \in {None, Some(TwoSteps)},
       c \in {None, Some(<< <<"c", "1">>, <<"c", "2">> >>)},
       desc \in {None} \cup {Some(x) : x \in Descriptions} }

RenderInit ==
  /\ catalog = DOMAINS
  /\ task = 1
  /\ parked = <<>>
  /\ env = [GOOGLE_CHAT_WEBHOOK_URL |-> None, TASK_OWNER |-> None]
  /\ pc = "raw"
  /\ req \in {Some(kw) : kw \in RenderInputs}
  /\ data = None
  /\ payload = None
  /\ resp = None
  /\ result = None
  /\ posts = 0
  /\ resolved = None
  /\ formatted = <<>>

\* payload = server.build_cards_payload(data)
RenderServer ==
  /\ pc = "constructed"
  /\ data.val.ok
  /\ payload' = Some(build_cards_payload(data.val.val))
  /\ resolved' = Some([renderer |-> "server", desc |-> None])
  /\ pc' = "rendered"
  /\ UNCHANGED <<catalog, task, parked, env, req, data, resp, result, posts, formatted>>

\* payload = formatter.build_cards_payload(data, desc)
RenderFormatter ==
  /\ pc = "constructed"
  /\ data.val.ok
  /\ payload' = Some(formatter_build_cards_payload(data.val.val, req.val.desc))
  /\ resolved' = Some([renderer |-> "formatter", desc |-> req.val.desc])
  /\ pc' = "rendered"
  /\ UNCHANGED <<catalog, task, parked, env, req, data, resp, result, posts, formatted>>

RenderNext == Construct \/ RenderServer \/ RenderFormatter

SpecRender == RenderInit /\ [][RenderNext]_vars

(***************************************************************************)
(* Properties.                                                             *)
(***************************************************************************)

\* A text with nothing but whitespace in it (the empty text too).
IsBlank(t) == \A i \in 1..Len(t) : t[i] \in {" ", "\n"}

\* The record SendMessageInput built in the record specification, once built.
Constructed == pc \in {"constructed", "resolved", "resolved_again"} /\ data.val.ok

\* C1: in every record SendMessageInput constructs, task_owner is not an
\* element of participants (exact match), and participants is never an empty
\* list: when removing the owner leaves nothing, it is None.
C1_OwnerNotInParticipants ==
  Constructed =>
    LET r == data.val.val
    IN /\ r.participants.some => r.participants.val # <<>>
       /\ (r.task_owner.some /\ r.participants.some) =>
            \A i \in 1..Len(r.participants.val) :
               r.participants.val[i] # r.task_owner.val

\* C1 happens: the normalized participants held the owner, and nothing else,
\* so the record has no participants.
C1_Witness ==
  /\ Constructed
  /\ data.val.val.task_owner.some
  /\ normalize_participants(req.val.participants).val.some
  /\ \E i \in 1..Len(normalize_participants(req.val.participants).val.val) :
        normalize_participants(req.val.participants).val.val[i]
          = data.val.val.task_owner.val
  /\ data.val.val.participants = None

\* C2: an owner string with a comma and no explicit participants is split:
\* task_owner is the first comma-separated token and participants are the
\* remaining tokens, in order.  (Tokens are compared trimmed, and either as
\* written or title-cased.)
C2_CommaOwnerSplits ==
  ( /\ Constructed
    /\ req.val.task_owner.kind = "str"
    /\ \E i \in 1..Len(req.val.task_owner.val) : req.val.task_owner.val[i] = ","
    /\ req.val.participants = RawNone
    /\ Len(StripNonEmpty(Split(req.val.task_owner.val, ","))) >= 2
    /\ ~IsBlank(Split(req.val.task_owner.val, ",")[1]) )
  =>
    LET tokens == StripNonEmpty(Split(req.val.task_owner.val, ","))
        r == data.val.val
    IN /\ r.task_owner.some
       /\ r.task_owner.val \in {tokens[1], Title(tokens[1])}
       /\ r.participants.some
       /\ Len(r.participants.val) = Len(tokens) - 1
       /\ \A i \in 1..(Len(tokens) - 1) :
             r.participants.val[i] \in {tokens[i + 1], Title(tokens[i + 1])}

\* The message names every key of the catalog.
EnumeratesDomainKeys(message) ==
  \A i \in 1..Len(DOMAIN_KEYS) : Contains(message, <<DOMAIN_KEYS[i]>>)

\* Some caller-supplied analysis step has a blank title or detail.
HasBlankStep(args) ==
  /\ args.analysis_steps.some
  /\ \E i \in 1..Len(args.analysis_steps.val) :
        \/ IsBlank(args.analysis_steps.val[i].title)
        \/ IsBlank(args.analysis_steps.val[i].detail)

InvalidArgs(args) ==
  \/ IsBlank(args.title) \/ IsBlank(args.summary)
  \/ IsBlank(args.problem) \/ IsBlank(args.estimated_duration)
  \/ args.domain \notin DOMAIN DOMAINS
  \/ HasBlankStep(args)
  \/ args.task_owner.kind \notin {"none", "str"}

\* C4: a call whose arguments fail validation returns success=false with an
\* "Invalid input: ..." message that carries the validator's error, and in
\* that call no card is built and no POST is made.
C4_InvalidNeverBuiltNorPosted ==
  (pc # "idle" /\ InvalidArgs(req.val)) =>
    /\ pc = "done"
    /\ ~result.val.success
    /\ result.val.http_status = None
    /\ SubSeq(result.val.message, 1, 3) = <<"Invalid", " ", "input:">>
    /\ Contains(result.val.message, <<"Value", " ", "error,">>)
    /\ data = None /\ payload = None /\ resp = None /\ posts = 0

\* C4 happens: an all-whitespace title, everything else valid.
C4_Witness ==
  /\ pc = "done"
  /\ req.val.title = T_BLANK
  /\ ~IsBlank(req.val.summary) /\ ~IsBlank(req.val.problem)
  /\ ~IsBlank(req.val.estimated_duration)
  /\ req.val.domain = "general"
  /\ ~result.val.success
  /\ Contains(result.val.message, <<"title">>)
  /\ posts = 0

\* C5: a record built for a catalog key with no explicit analysis_steps and no
\* explicit acceptance_criteria resolves to exactly the catalog's steps and
\* criteria for that key: same length, order and content.
C5_DefaultsAreCatalog ==
  ( /\ pc = "resolved"
    /\ req.val.analysis_steps = None
    /\ req.val.acceptance_criteria = None )
  =>
    /\ resolved.val.steps = DOMAINS[req.val.domain].analysis_steps
    /\ resolved.val.criteria = DOMAINS[req.val.domain].acceptance_criteria

\* C5 happens: the backend defaults, five steps and four criteria.
C5_Witness ==
  /\ pc = "resolved"
  /\ req.val.domain = "backend"
  /\ req.val.analysis_steps = None
  /\ req.val.acceptance_criteria = None
  /\ Len(resolved.val.steps) = 5
  /\ Len(resolved.val.criteria) = 4

\* The webhook URL is unset, empty or all whitespace.
UrlNotSet ==
  \/ ~env.GOOGLE_CHAT_WEBHOOK_URL.some
  \/ IsBlank(env.GOOGLE_CHAT_WEBHOOK_URL.val)

\* C6: with the webhook URL unset, empty or all whitespace, a call that reaches
\* post_to_webhook returns success=false, a message containing "not set" and
\* http_status None, and makes no POST.
C6_UrlNotSet ==
  (pc # "idle" /\ data.some /\ UrlNotSet) =>
    /\ pc = "done"
    /\ ~result.val.success
    /\ Contains(result.val.message, <<"not", " ", "set">>)
    /\ result.val.http_status = None
    /\ posts = 0 /\ resp = None

\* C6 happens: a whitespace-only URL and a valid submission.
C6_Witness ==
  /\ pc = "done"
  /\ data.some
  /\ env.GOOGLE_CHAT_WEBHOOK_URL = Some(<<" ", "\n">>)
  /\ Contains(result.val.message, <<"not", " ", "set">>)

\* C7 as stated: 2xx gives success=true; any other status gives success=false,
\* http_status the status and a message containing the status code and the
\* response body; a transport error gives success=false and a message
\* containing the error text.
C7_SinkOutcomeVerbatim ==
  (pc = "done" /\ resp.some) =>
    IF resp.val.kind = "response"
    THEN IF resp.val.status_code \in 200..299
         THEN result.val.success
         ELSE /\ ~result.val.success
              /\ result.val.http_status = Some(resp.val.status_code)
              /\ Contains(result.val.message, IntText(resp.val.status_code))
              /\ Contains(result.val.message, resp.val.text)
    ELSE /\ ~result.val.success
         /\ Contains(result.val.message, resp.val.text)

\* C7 amended: as stated, except that the message carries the response body,
\* or the error text, without its trailing whitespace (SendMessageResult trims
\* its message); and http_status is the status for every response, None for a
\* transport error.
C7_SinkOutcomeTrimmed ==
  (pc = "done" /\ resp.some) =>
    IF resp.val.kind = "response"
    THEN /\ result.val.http_status = Some(resp.val.status_code)
         /\ IF resp.val.status_code \in 200..299
            THEN result.val.success
            ELSE /\ ~result.val.success
                 /\ Contains(result.val.message, IntText(resp.val.status_code))
                 /\ Contains(result.val.message,
                             RStripSet(resp.val.text, {" ", "\n"}))
    ELSE /\ ~result.val.success
         /\ result.val.http_status = None
         /\ Contains(result.val.message, RStripSet(resp.val.text, {" ", "\n"}))

\* C7 happens: the sink answered 500 "oops".
C7_Witness ==
  /\ pc = "done"
  /\ resp = Some([kind |-> "response", status_code |-> 500,
                  text |-> <<"o", "o", "p", "s">>])
  /\ ~result.val.success
  /\ result.val.http_status = Some(500)
  /\ Contains(result.val.message, <<"5", "0", "0">>)
  /\ Contains(result.val.message, <<"o", "o", "p", "s">>)

\* C8: in one call at most one POST is made; while the answer is awaited
\* exactly one has been made, and a failed send adds none.
C8_AtMostOnePost ==
  /\ posts <= 1
  /\ pc = "posting" => posts = 1
  /\ resp.some => posts = 1

\* C8 happens: a send failed (non-2xx or transport error) and was reported.
C8_Witness ==
  /\ pc = "done"
  /\ resp.some
  /\ ~result.val.success
  /\ posts = 1

\* C9: every call ends by returning a structured result; no exception leaves
\* send_google_chat_message.
C9_NoExceptionPropagates ==
  /\ pc # "raised"
  /\ pc = "done" => result.some

\* C10: format_title applied to its own output returns it unchanged.
C10_TitleIdempotent ==
  pc = "twice" => formatted[2] = formatted[1]

\* C11: whenever a card was built for an accepted submission, its header
\* title is the title the Title Normalizer produces from the submitted title
\* and domain (as it is, or HTML-escaped), not the submitted title.
C11_HeaderIsNormalizedTitle ==
  payload.some =>
    LET normalized == format_title(req.val.title, <<>>, req.val.domain)
    IN payload.val.cards[1].header.title \in {normalized, HtmlEscape(normalized)}

\* The characters html.escape rewrites.
MarkupChars == {"<", ">", "&", "\"", "'"}

NoRawMarkup(t) == \A i \in 1..Len(t) : t[i] \notin MarkupChars

\* The text a widget shows.
WidgetText(w) ==
  IF "keyValue" \in DOMAIN w THEN w.keyValue.content ELSE w.textParagraph.text

\* Every text of a card that embeds field values: the header title and the
\* widgets' contents.
CardTexts(card) ==
  {card.header.title}
    \cup UNION { { WidgetText(card.sections[i].widgets[j]) :
                      j \in 1..Len(card.sections[i].widgets) } :
                    i \in 1..Len(card.sections) }

\* C12: in every card built, no text that embeds a field value carries one of
\* the characters <, >, &, ", ' unescaped: every field is HTML-escaped before
\* it is embedded (the program's own markup is the atoms "<b>", "</b>",
\* "<br>").
C12_UserTextEscaped ==
  payload.some =>
    \A t \in CardTexts(payload.val.cards[1]) : NoRawMarkup(t)

\* What a call with frame f returns when it runs alone: from its own
\* arguments, the environment and the sink's answer to its own POST.
AloneResult(f) ==
  LET parsed == parse_input(f.req.val, env)
  IN IF ~parsed.ok THEN InvalidInputResult(parsed.errors)
     ELSE IF webhook_url(env) = <<>> THEN NotSetResult
     ELSE IF f.resp.val.kind = "response"
     THEN ResponseResult(f.resp.val.status_code, f.resp.val.text)
     ELSE RequestErrorResult(f.resp.val.text)

\* The record, the card and the result in frame f are those of the call
\* running alone.
AsAlone(f) ==
  f.req.some =>
    LET parsed == parse_input(f.req.val, env)
    IN /\ f.data = IF parsed.ok THEN Some(parsed.val) ELSE None
       /\ f.payload = IF parsed.ok THEN Some(build_cards_payload(parsed.val)) ELSE None
       /\ f.pc = "done" => f.result = Some(AloneResult(f).val)

\* C13: however the calls interleave, the record, the card and the result of
\* every call (the running one and the parked ones) are those of the same
\* call running alone with the same arguments and the same answer of the
\* sink, and the catalog keeps the contents core.py gave it.
C13_SubmissionsIndependent ==
  /\ catalog = DOMAINS
  /\ AsAlone(Frame)
  /\ \A t \in DOMAIN parked : AsAlone(parked[t])

\* C13 happens: a call got the sink's answer and returned a result while
\* another call, with caller-supplied steps and other arguments, is still
\* awaiting its POST.
C13_Witness ==
  /\ pc = "done"
  /\ resp.some
  /\ \E t \in DOMAIN parked :
        /\ parked[t].pc = "posting"
        /\ parked[t].req # req
        /\ parked[t].req.val.analysis_steps.some

\* The keyword set names participants explicitly (a string or a list).
ExplicitParticipants(kw) == kw.participants.kind \in {"str", "list"}

\* C14: when the owner string comes with explicit participants, the record's
\* task_owner is the whole owner string, trimmed (as written, or title-cased),
\* commas included: it is not split.
C14_OwnerAsIsWithParticipants ==
  ( /\ Constructed
    /\ req.val.task_owner.kind = "str"
    /\ ~IsBlank(req.val.task_owner.val)
    /\ ExplicitParticipants(req.val) )
  =>
    LET whole == Strip(req.val.task_owner.val)
        r == data.val.val
    IN /\ r.task_owner.some
       /\ r.task_owner.val \in {whole, Title(whole)}

\* The entries of a raw participants value as the caller wrote them: the
\* pieces between commas of a string, the string items of a list.
Entries(v) ==
  IF v.kind = "str" THEN Split(v.val, ",")
  ELSE IF v.kind = "list" THEN StrItems(v.items)
  ELSE <<>>

\* An entry as the record keeps it: trimmed, and title-cased when it came in
\* a comma-separated string.
Kept(v, e) == IF v.kind = "str" THEN Title(Strip(e)) ELSE Strip(e)

Occurrences(p, seq) == Cardinality({i \in 1..Len(seq) : seq[i] = p})

\* C15 as stated: no string occurs twice in the participants of a record.
C15_ParticipantsUnique ==
  (Constructed /\ data.val.val.participants.some) =>
    LET ps == data.val.val.participants.val
    IN \A i, j \in 1..Len(ps) : ps[i] = ps[j] => i = j

\* C15 amended: the participants of a record hold no empty entry and no entry
\* equal to the owner, and every other string occurs in them as many times
\* as among the raw entries (trimmed; title-cased for a string): duplicates
\* of the raw input are kept.
C15_ParticipantsKeepDuplicates ==
  (Constructed /\ ExplicitParticipants(req.val)) =>
    LET r == data.val.val
        ps == IF r.participants.some THEN r.participants.val ELSE <<>>
        es == Entries(req.val.participants)
        raw == [i \in 1..Len(es) |-> Kept(req.val.participants, es[i])]
    IN /\ \A i \in 1..Len(ps) :
             /\ ps[i] # <<>>
             /\ r.task_owner.some => ps[i] # r.task_owner.val
       /\ \A i \in 1..Len(raw) :
             (raw[i] # <<>> /\ (r.task_owner.some => raw[i] # r.task_owner.val))
               => Occurrences(raw[i], ps) = Occurrences(raw[i], raw)

\* C15 happens: a record whose participants hold the same string twice.
C15_Witness ==
  /\ Constructed
  /\ data.val.val.participants.some
  /\ \E i, j \in 1..Len(data.val.val.participants.val) :
        i # j /\ data.val.val.participants.val[i] = data.val.val.participants.val[j]

\* A raw participants value the claim covers: a string, or a list of strings.
StringOrStrings(v) ==
  \/ v.kind = "str"
  \/ v.kind = "list" /\ \A i \in 1..Len(v.items) : v.items[i].kind = "str"

IsNonEmptyText(e) == e # <<>>

\* The entries of v, each trimmed, the empty ones dropped, in their order.
TrimmedEntries(v) ==
  SelectSeq([i \in 1..Len(Entries(v)) |-> Strip(Entries(v)[i])], IsNonEmptyText)

\* C16 as stated: without an owner to exclude, the participants of a record
\* are exactly the raw entries trimmed, without the empty ones, in their
\* order, and None when nothing remains.
C16_ParticipantsTrimmedOnly ==
  ( /\ Constructed
    /\ StringOrStrings(req.val.participants)
    /\ ~data.val.val.task_owner.some )
  =>
    LET expected == TrimmedEntries(req.val.participants)
    IN data.val.val.participants = IF expected = <<>> THEN None ELSE Some(expected)

\* C16 amended: the same, except that the entries of a comma-separated string
\* are also title-cased.
C16_ParticipantsNormalized ==
  ( /\ Constructed
    /\ StringOrStrings(req.val.participants)
    /\ ~data.val.val.task_owner.some )
  =>
    LET trimmed == TrimmedEntries(req.val.participants)
        expected == [i \in 1..Len(trimmed) |-> Kept(req.val.participants, trimmed[i])]
    IN data.val.val.participants = IF expected = <<>> THEN None ELSE Some(expected)

\* C16 happens: a raw value with an empty entry and an entry to trim gave a
\* record with fewer participants than raw entries.
C16_Witness ==
  /\ Constructed
  /\ StringOrStrings(req.val.participants)
  /\ ~data.val.val.task_owner.some
  /\ data.val.val.participants.some
  /\ Len(data.val.val.participants.val) < Len(Entries(req.val.participants))
  /\ \E i \in 1..Len(Entries(req.val.participants)) :
        /\ Entries(req.val.participants)[i] # Strip(Entries(req.val.participants)[i])
        /\ Strip(Entries(req.val.participants)[i]) # <<>>

\* The caller's steps as SolutionStep keeps them: title and detail trimmed.
TrimmedSteps(steps) ==
  [i \in 1..Len(steps) |->
     [title |-> Strip(steps[i].title), detail |-> Strip(steps[i].detail)]]

\* C17: the resolved steps are the caller's steps (trimmed, in the given
\* order) when the caller gave a non-empty list, and the defaults of the
\* domain when the list is absent or empty; the resolved criteria are the
\* caller's criteria when non-empty and the defaults otherwise; each choice
\* depends on its own field only, and a second resolution gives the same
\* lists.
C17_TwoBranchPolicy ==
  (pc \in {"resolved", "resolved_again"}) =>
    LET kw == req.val
        steps == IF kw.analysis_steps.some /\ kw.analysis_steps.val # <<>>
                 THEN TrimmedSteps(kw.analysis_steps.val)
                 ELSE DOMAINS[kw.domain].analysis_steps
        criteria == IF kw.acceptance_criteria.some /\ kw.acceptance_criteria.val # <<>>
                    THEN kw.acceptance_criteria.val
                    ELSE DOMAINS[kw.domain].acceptance_criteria
    IN /\ resolved.val.steps = steps
       /\ resolved.val.criteria = criteria
       /\ pc = "resolved_again" =>
            /\ resolved.val.steps_again = resolved.val.steps
            /\ resolved.val.criteria_again = resolved.val.criteria

\* C17 happens: resolved twice, with two steps of the caller and the
\* default criteria of the domain (the caller's list is empty).
C17_Witness ==
  /\ pc = "resolved_again"
  /\ req.val.acceptance_criteria = Some(<<>>)
  /\ Len(resolved.val.steps) = 2
  /\ resolved.val.steps = TrimmedSteps(req.val.analysis_steps.val)
  /\ resolved.val.criteria = DOMAINS[req.val.domain].acceptance_criteria

\* The action format_title works on: the raw title trimmed, then without its
\* trailing punctuation.
ActionOf(raw_title) == RStripSet(Strip(raw_title), TrailingPunctuation)

\* The action already ends with a canonical future-tense suffix.
AlreadyFuture(action) ==
  \E i \in 1..Len(_VALID_SUFFIXES) :
     EndsWith(Lower(action), Lower(_VALID_SUFFIXES[i]))

\* The rules whose verbal noun is the end of the action, whatever the case.
MatchingRules(action) ==
  { i \in 1..Len(replacements) :
      /\ Len(replacements[i][1]) <= Len(action)
      /\ FoldEq(SubSeq(action, Len(action) - Len(replacements[i][1]) + 1, Len(action)),
                replacements[i][1]) }

\* The action the claim describes: the first matching rule's noun replaced
\* where it stands, or the action followed by " Yap[inodot]lacak".
RewrittenAction(action) ==
  IF MatchingRules(action) = {}
  THEN action \o <<" ", "Y", "a", "p", "inodot", "l", "a", "c", "a", "k">>
  ELSE LET first == CHOOSE i \in MatchingRules(action) :
                       \A j \in MatchingRules(action) : i <= j
       IN SubSeq(action, 1, Len(action) - Len(replacements[first][1]))
            \o replacements[first][2]

\* No prefix is put before the action: no project, and a domain without one.
NoPrefix(args) ==
  /\ Strip(args.project) = <<>>
  /\ args.domain \notin {"backend", "frontend", "devops", "mobile", "data", "business"}

\* C18: for a title whose action does not already end with a canonical
\* suffix, the normalized title ends with the action rewritten by the first
\* rule (in table order) whose verbal noun is the end of the action,
\* ignoring case, only that trailing span being replaced; with no such rule
\* it ends with the action followed by one space and "Yap[inodot]lacak".
\* Without a prefix the normalized title is exactly that.
C18_FirstMatchingRule ==
  (pc = "once" /\ ~AlreadyFuture(ActionOf(req.val.raw_title))) =>
    LET expected == RewrittenAction(ActionOf(req.val.raw_title))
    IN /\ EndsWith(formatted[1], expected)
       /\ NoPrefix(req.val) => formatted[1] = expected

\* The contents of the key/value rows of a card's first section, in order.
MetaContents(card) ==
  [i \in 1..Len(card.sections[1].widgets) |->
     card.sections[1].widgets[i].keyValue.content]

\* C19: the meta section of every rendered card holds, in this order, the
\* domain label, the estimated duration, the owner when the record has one
\* and the participants joined by ", " when the record has some, and no
\* other row.
C19_MetaRows ==
  pc = "rendered" =>
    LET r == data.val.val
    IN MetaContents(payload.val.cards[1]) =
         << HtmlEscape(catalog[r.domain].label), HtmlEscape(r.estimated_duration) >>
           \o (IF r.task_owner.some THEN <<HtmlEscape(r.task_owner.val)>> ELSE <<>>)
           \o (IF r.participants.some
               THEN <<HtmlEscape(Join(r.participants.val, <<",", " ">>))>>
               ELSE <<>>)

\* The headers of a card's sections, in order (None for a section without).
SectionHeaders(card) ==
  [i \in 1..Len(card.sections) |-> card.sections[i].header]

DescriptionHeader == Some(<<"G[ouml]rev", " ", "A[ccedil][inodot]klamas[inodot]">>)
SolutionHeader == Some(<<"Muhtemel", " ", "[Ccedil][ouml]z[uuml]m">>)
AdvantagesHeader == Some(<<"[Ccedil][ouml]z[uuml]m[uuml]n", " ", "Avantajlar[inodot]">>)
CriteriaHeader == Some(<<"Kabul", " ", "Kriterleri">>)

\* The renderer was given a description with a non-empty advantages list.
AdvantagesSupplied ==
  /\ resolved.val.desc.some
  /\ resolved.val.desc.val.advantages # <<>>

\* C20: the sections of every rendered card are, in this order, the meta
\* section (key/value rows, no header), the description, the solution, the
\* advantages if and only if a non-empty advantages list was supplied, and
\* the acceptance criteria; each of the four others exactly once.
C20_SectionOrder ==
  pc = "rendered" =>
    /\ SectionHeaders(payload.val.cards[1]) =
         <<None, DescriptionHeader, SolutionHeader>>
           \o (IF AdvantagesSupplied THEN <<AdvantagesHeader>> ELSE <<>>)
           \o <<CriteriaHeader>>
    /\ \A j \in 1..Len(payload.val.cards[1].sections[1].widgets) :
          "keyValue" \in DOMAIN payload.val.cards[1].sections[1].widgets[j]

\* C20 happens: a card rendered from a description with advantages; the
\* advantages section is the fourth of five.
C20_Witness ==
  /\ pc = "rendered"
  /\ AdvantagesSupplied
  /\ Len(payload.val.cards[1].sections) = 5
  /\ payload.val.cards[1].sections[4].header = AdvantagesHeader

\* The lines of the solution section of a card: its text cut at the breaks.
SolutionLines(card) ==
  Split(card.sections[3].widgets[1].textParagraph.text, "<br>")

\* The renderer was given a description with a non-empty solution_steps list.
RichSupplied ==
  /\ resolved.val.desc.some
  /\ resolved.val.desc.val.solution_steps # <<>>

\* The number of lines the sections before the i-th take up.
RECURSIVE LinesBefore(_, _)
LinesBefore(i, sections) ==
  IF i <= 1 THEN 0
  ELSE LinesBefore(i - 1, sections) + 1 + Len(sections[i - 1].items)

\* The shapes of a line: a flat step, a numbered header, a nested sub-bullet.
IsFlatLine(line) == Len(line) >= 1 /\ line[1] = "bullet"
IsRichHeader(line) == Len(line) >= 1 /\ line[1] = "<b>"
IsRichItem(line) == Len(line) >= 1 /\ line[1] = "&nbsp;"

ResponseReceived == resp.some /\ resp.val.kind = "response"

\* C22: in every result returned by the tool, http_status is set if and only
\* if the sink answered in this call, and is then the answer's status; it is
\* None after a validation failure, a configuration failure (URL not set)
\* and a transport failure; success means exactly one POST was made and
\* http_status is a 2xx code.
C22_StatusIffResponse ==
  (pc = "done" /\ result.some) =>
    /\ result.val.http_status.some <=> ResponseReceived
    /\ ResponseReceived => result.val.http_status = Some(resp.val.status_code)
    /\ data = None => result.val.http_status = None
    /\ (data.some /\ webhook_url(env) = <<>>) => result.val.http_status = None
    /\ (resp.some /\ resp.val.kind = "RequestError") => result.val.http_status = None
    /\ result.val.success =>
          /\ posts = 1
          /\ result.val.http_status.some
          /\ result.val.http_status.val \in 200..299

\* C22 happens: a call returned after the sink rejected it; the result is a
\* failure that carries the answer's status.
C22_Witness ==
  /\ pc = "done"
  /\ result.some
  /\ ResponseReceived
  /\ ~result.val.success
  /\ posts = 1
  /\ result.val.http_status = Some(resp.val.status_code)

\* The raw owner is a name (a string with something but whitespace in it)
\* that is also, character for character, an entry of the raw participants.
SameRawName ==
  /\ req.val.task_owner.kind = "str"
  /\ Strip(req.val.task_owner.val) # <<>>
  /\ StringOrStrings(req.val.participants)
  /\ \E i \in 1..Len(Entries(req.val.participants)) :
        Entries(req.val.participants)[i] = req.val.task_owner.val

\* The owner's form of a raw name: its first token, trimmed and title-cased.
OwnerForm(name) == Title(Strip(Split(name, ",")[1]))

\* The participants of a record as a list (empty when absent).
ParticipantsOf(r) == IF r.participants.some THEN r.participants.val ELSE <<>>

====
